---- MODULE Spec2Model ----
(***************************************************************************)
(* Enviro Station backend (src/backend/internal/server): the ingest        *)
(* handlers, the reading store, the stream hub, the device monitor and the *)
(* insights scheduler, as one state machine.  A goroutine is a process     *)
(* with a program counter; one action is one critical section (or one      *)
(* channel operation, or one store call) of the Go code.                   *)
(***************************************************************************)
EXTENDS Integers, Sequences, FiniteSets, TLC

(* ------------------------------------------------------------------ *)
(* Bounds of the model.                                                *)
(* ------------------------------------------------------------------ *)
\* readings accepted over a run
MaxReadings == 2
\* ingest requests over a run
MaxRequests == 2
\* items of a batch that are written out in full
MaxBatchLen == 2
\* a request limiter's limit and the most calls of Allow in a run
RateLimit == 2
MaxAllowCalls == 4
\* the end of a run that is long enough for a ticker to fire more than once,
\* in ticks of the clock
LongRun == 3
\* RETENTION_DAYS, RETENTION_INTERVAL and RETENTION_BATCH_SIZE, scaled down to
\* the clock's range and to the rows of a run
RetentionAge == 1
RetentionInterval == 1
RetentionBatchSize == 1
\* readings over a run in which the scheduler's throttle is exercised: one to
\* seed the last reading, one to trigger, one to be throttled
TriggerReadings == 3
\* calls of one unsubscribe closure over a run
MaxUnsubscribeCalls == 3
\* make(chan SensorReading, 64) in streamHub.subscribe: the depth is scaled
\* down so that a full buffer is reachable within MaxReadings publishes
SubscriberBuffer == 1

(* ------------------------------------------------------------------ *)
(* Program constants.                                                  *)
(* ------------------------------------------------------------------ *)
maxBatchSize == 1000
maxInsightsLimit == 3
\* DefaultInsightsSchedulerConfig
AnalysisLimit == 900
PM2Threshold == 8
PM10Threshold == 30
PM2DeltaTrigger == 3
PM10DeltaTrigger == 10
\* PostgresStore.Latest and LatestOpsEvents when limit <= 0
DefaultLatestLimit == 100
\* PostgresStore.DeleteOlderThan when limit <= 0
DefaultDeleteLimit == 1000
DefaultOpsLimit == 30
MaxOpsLimit == 200
\* the ops events initializeDeviceState looks at
InitOpsLimit == 20

(* ------------------------------------------------------------------ *)
(* The clock's range and the configured durations, in ticks of the     *)
(* model's clock: the durations are configuration (OpsConfig,          *)
(* InsightsSchedulerConfig) and are scaled down to the clock's range.  *)
(* ------------------------------------------------------------------ *)
MaxTime == 2
RateWindow == 2
DeviceOfflineTimeout == 1
MonitorInterval == 1
RefreshInterval == 1
EventMinInterval == 1

\* ingest requests in progress at once (net/http runs a goroutine per request)
Handlers == {1, 2}
\* /api/stream connections over a run; each subscribes once
Streams == {1, 2}
\* recomputeLoop goroutines that can exist at once
Loops == {1, 2}

VARIABLES
    config,         \* what NewAPI was given: engine (an analyzer, so a scheduler)
                    \* and ops (a store that is an OpsEventStore); trace says
                    \* whether the history of publish calls is recorded
    ingestAPIKey,   \* API.ingestAPIKey
    now,            \* the wall clock
    rows,           \* sensor_readings, in insertion (id) order
    subscribers,    \* streamHub.subscribers: the channels registered
    chanBuf,        \* the buffered content of each subscriber channel
    chanClosed,     \* whether close(channel) has run
    unsub,          \* of each connection's unsubscribe closure: how often it
                    \* was called and how often it ran close(channel)
    spc,            \* handleStream goroutine of each connection
    received,       \* the readings each connection has written as SSE events
    hs,             \* the ingest handler goroutines
    nextSeq,        \* the next unused client timestamp
    requests,       \* ingest requests begun so far
    pubCalls,       \* the calls of streamHub.publish in call order, each with
                    \* the readings whose publish had returned by then
    pubDone,        \* the readings whose publish has returned
    dev,            \* API.deviceStateKnown, deviceConnected, lastDeviceSeenAt
    mon,            \* the device monitor goroutine and its ticker
    opsEmitted,     \* the events handed to persistOpsEvent, in the order of the
                    \* critical sections that decided them
    opsPending,     \* the persistOpsEvent goroutines that have not run yet
    opsEvents,      \* ops_events, in insertion (id) order
    sched,          \* InsightsScheduler's fields guarded by scheduler.mu
    loops,          \* the recomputeLoop goroutines
    ticker,         \* the next time the scheduler's refresh ticker fires
    savedSnapshot,  \* insights_snapshots: the row keyed 'latest'
    ret,            \* the retention worker goroutine of main
    shutdown,       \* when the process was asked to stop, 0 while it was not
    limiter,        \* a requestLimiter: entries, and the times at which Allow
                    \* has let a request of each key through
    client,         \* the last call of clientIdentity: request, flag, result
    seenLatest,     \* the latest time.Now() that a call of onTelemetryReceived
                    \* has recorded so far, 0 before the first call
    stats           \* arrived: the recompute requests made since the recompute
                    \* now running was started; coalesced: how many requests
                    \* the recompute now running follows up, if it is a follow-up

hubVars == <<subscribers, chanBuf, chanClosed, unsub>>
streamVars == <<spc, received>>
handlerVars == <<hs, nextSeq, requests>>
pubVars == <<pubCalls, pubDone>>
opsVars == <<dev, opsEmitted, opsPending, opsEvents>>
schedVars == <<sched, loops, savedSnapshot, stats>>
constVars == <<config, ingestAPIKey>>
sideVars == <<shutdown, limiter, client, seenLatest>>
vars == <<constVars, sideVars, ret, now, rows, hubVars, streamVars, handlerVars, pubVars,
          opsVars, mon, schedVars, ticker>>

(* ------------------------------------------------------------------ *)
(* Sequences.                                                          *)
(* ------------------------------------------------------------------ *)
Elems(s) == {s[i] : i \in DOMAIN s}

RECURSIVE Perms(_)
\* every order in which a Go map range can visit the set S
Perms(S) ==
    IF S = {} THEN {<<>>}
    ELSE UNION {{<<x>> \o p : p \in Perms(S \ {x})} : x \in S}

(* ------------------------------------------------------------------ *)
(* Strings, as sequences of characters.                                *)
(* ------------------------------------------------------------------ *)
RECURSIVE TrimLeft(_)
TrimLeft(s) == IF s # <<>> /\ Head(s) = " " THEN TrimLeft(Tail(s)) ELSE s

RECURSIVE TrimRight(_)
TrimRight(s) ==
    IF s # <<>> /\ s[Len(s)] = " " THEN TrimRight(SubSeq(s, 1, Len(s) - 1)) ELSE s

\* strings.TrimSpace
TrimSpace(s) == TrimRight(TrimLeft(s))

\* subtle.ConstantTimeCompare(x, y) == 1
ConstantTimeCompare(x, y) ==
    /\ Len(x) = Len(y)
    /\ \A i \in 1..Len(x) : x[i] = y[i]

\* INGEST_API_KEY as the operator set it, and the X-API-Key headers clients send
\* (the empty string is a request without the header)
EnvIngestAPIKey == <<" ", "k">>
HeaderKeys == {<<>>, <<"k">>, <<"k", " ">>, <<"x">>}

(* ------------------------------------------------------------------ *)
(* Reading codec.  A JSON object is kept as what the decoder looks at: *)
(* whether its keys are exactly the ten fields, lack one, or include   *)
(* an unknown one, and the values of timestamp, pm2 and pm10.          *)
(* ------------------------------------------------------------------ *)
DecodeOk(v) == [ok |-> TRUE, value |-> v]
DecodeErr(e) == [ok |-> FALSE, err |-> e]

decodeReadingPayload(payload) ==
    IF payload.keys = "extra" THEN DecodeErr("unknown field")
    ELSE IF payload.keys = "missing" THEN DecodeErr("missing field")
    ELSE IF payload.ts = 0 THEN DecodeErr("timestamp is required")
    ELSE DecodeOk([ts |-> payload.ts, pm2 |-> payload.pm2, pm10 |-> payload.pm10])

DecodeReading(raw) ==
    IF raw.kind # "json" THEN DecodeErr("invalid json")
    ELSE decodeReadingPayload(raw.item)

RECURSIVE decodeItems(_, _)
\* the loop of DecodeReadingsBatch: stops at the first invalid element
decodeItems(items, acc) ==
    IF items = <<>> THEN DecodeOk(acc)
    ELSE LET r == decodeReadingPayload(Head(items))
         IN IF ~r.ok THEN DecodeErr("invalid reading at index")
            ELSE decodeItems(Tail(items), Append(acc, r.value))

\* raw.n is len(payloads); raw.items are the elements (of an oversized batch,
\* the first MaxBatchLen of them)
DecodeReadingsBatch(raw, max) ==
    IF raw.kind # "json" THEN DecodeErr("invalid json")
    ELSE IF raw.n = 0 THEN DecodeErr("batch must include at least one reading")
    ELSE IF raw.n > max THEN DecodeErr("batch exceeds max size")
    ELSE decodeItems(raw.items, <<>>)

(* ------------------------------------------------------------------ *)
(* Requests.                                                           *)
(* ------------------------------------------------------------------ *)
ItemKinds == {"ok", "unknown", "missing", "zero"}

\* the JSON object of one reading; ts is the client's timestamp
Item(kind, ts, pm) ==
    [keys |-> CASE kind = "unknown" -> "extra"
                [] kind = "missing" -> "missing"
                [] OTHER -> "exact",
     ts |-> IF kind = "zero" THEN 0 ELSE ts,
     pm2 |-> pm[1], pm10 |-> pm[2]]

RECURSIVE SeqsOf(_, _)
SeqsOf(S, n) ==
    IF n = 0 THEN {<<>>}
    ELSE {Append(q, x) : q \in SeqsOf(S, n - 1), x \in S}

\* the elements of a batch: consecutive timestamps from seq on
BatchItems(kinds, seq, pm) ==
    [i \in 1..Len(kinds) |-> Item(kinds[i], seq + i - 1, pm)]

\* batches of n elements with at most one invalid element
BatchKinds(n) ==
    {k \in SeqsOf(ItemKinds, n) : Cardinality({i \in 1..n : k[i] # "ok"}) <= 1}

AllOk(n) == [i \in 1..n |-> "ok"]

SingleBody(kind, seq, pm) == [kind |-> "json", item |-> Item(kind, seq, pm)]
BatchBody(n, kinds, seq, pm) ==
    [kind |-> "json", n |-> n, items |-> BatchItems(kinds, seq, pm)]

Request(route, method, key, body) ==
    [route |-> route, method |-> method, key |-> key, body |-> body]

\* well-formed, authorized requests: one reading, or a batch of 1..MaxBatchLen
SingleRequests(seq, PMs) ==
    {Request("single", "POST", <<"k">>, SingleBody("ok", seq, pm)) : pm \in PMs}

BatchRequests(seq, PMs) ==
    {Request("batch", "POST", <<"k">>, BatchBody(n, AllOk(n), seq, pm)) :
        n \in 1..MaxBatchLen, pm \in PMs}

GoodRequests(seq, PMs) == SingleRequests(seq, PMs) \cup BatchRequests(seq, PMs)

\* requests the handler rejects before its store call: another method, another
\* key, a body that cannot be read or parsed, an invalid reading, an empty or
\* oversized batch, a batch with an invalid element
BadRequests(seq, pm) ==
    UNION {
        {Request(route, "GET", k, [kind |-> "badjson"]) : k \in {<<"k">>, <<"x">>}}
        \cup {Request(route, "POST", k, [kind |-> "badjson"]) : k \in HeaderKeys}
        \cup {Request(route, "POST", <<"k">>, [kind |-> "unreadable"])}
        : route \in {"single", "batch"}}
    \cup {Request("single", "POST", k, SingleBody("ok", seq, pm)) :
            k \in HeaderKeys \ {<<"k">>}}
    \cup {Request("single", "POST", <<"k">>, SingleBody(kind, seq, pm)) :
            kind \in ItemKinds \ {"ok"}}
    \cup {Request("batch", "POST", <<"k">>, BatchBody(0, <<>>, seq, pm)),
          Request("batch", "POST", <<"k">>,
                  BatchBody(maxBatchSize + 1, AllOk(MaxBatchLen), seq, pm))}
    \cup UNION {
            {Request("batch", "POST", <<"k">>, BatchBody(n, kinds, seq, pm)) :
                kinds \in BatchKinds(n) \ {AllOk(n)}}
            : n \in 1..MaxBatchLen}

\* the readings a request carries if it is accepted
Carried(req) ==
    IF req.body.kind # "json" THEN 0
    ELSE IF req.route = "single" THEN 1
    ELSE Len(req.body.items)

\* the requests clients send when seq is the next unused timestamp and the
\* run takes up to most readings
FitsIn(reqs, seq, most) == {q \in reqs : seq + Carried(q) - 1 <= most}

Fits(reqs, seq) == FitsIn(reqs, seq, MaxReadings)

(* ------------------------------------------------------------------ *)
(* Ingest handlers: API.handleIngest and API.handleIngestBatch.        *)
(* ------------------------------------------------------------------ *)
IdleHandler ==
    [pc |-> "idle", route |-> "none", readings |-> <<>>, idx |-> 0, subs |-> <<>>,
     now |-> 0, resp |-> 0, decoded |-> FALSE, stored |-> FALSE, notified |-> FALSE,
     published |-> 0, informed |-> FALSE]

\* a comparison that stops at the lengths
authorizeIngestRequest_LengthOnly(key) == Len(key) = Len(ingestAPIKey)

\* API.authorizeIngestRequest
authorizeIngestRequest(key) == ConstantTimeCompare(key, ingestAPIKey)

\* The handler up to its store call: the method check, the key check, reading
\* the body and decoding it, none of which touches shared state.  The result is
\* the status answered (0: none yet), the decoded readings, and whether the
\* body was decoded at all.
Prelude(req) ==
    IF req.method # "POST"
    THEN [status |-> 405, readings |-> <<>>, decoded |-> FALSE]
    ELSE IF ~authorizeIngestRequest(req.key)
    THEN [status |-> 401, readings |-> <<>>, decoded |-> FALSE]
    ELSE IF req.body.kind = "unreadable"
    THEN [status |-> 400, readings |-> <<>>, decoded |-> FALSE]
    ELSE LET r == IF req.route = "single"
                  THEN DecodeReading(req.body)
                  ELSE DecodeReadingsBatch(req.body, maxBatchSize)
         IN IF ~r.ok
            THEN [status |-> 400, readings |-> <<>>, decoded |-> TRUE]
            ELSE [status |-> 0,
                  readings |-> IF req.route = "single" THEN <<r.value>> ELSE r.value,
                  decoded |-> TRUE]

\* a request arrives at a free handler goroutine and runs up to its store call;
\* the timestamps of a rejected request are free to be sent again; the run
\* takes up to most requests
BeginWithin(h, req, most) ==
    /\ hs[h].pc \in {"idle", "done", "panicked"}
    /\ requests < most
    /\ LET p == Prelude(req)
       IN /\ hs' = [hs EXCEPT ![h] =
                       [IdleHandler EXCEPT
                           !.pc = IF p.status = 0 THEN "store" ELSE "done",
                           !.route = req.route,
                           !.readings = p.readings,
                           !.resp = p.status,
                           !.decoded = p.decoded]]
          /\ nextSeq' = nextSeq + Len(p.readings)
    /\ requests' = requests + 1
    /\ UNCHANGED <<constVars, sideVars, ret, now, rows, hubVars, streamVars, pubVars, opsVars, mon,
                   schedVars, ticker>>

Begin(h, req) == BeginWithin(h, req, MaxRequests)

(* ------------------------------------------------------------------ *)
(* PostgresStore: sensor_readings.                                     *)
(* ------------------------------------------------------------------ *)
\* Add that answers nil although the INSERT failed
Add_Swallowed(table, reading, outcome) ==
    IF outcome = "ok"
    THEN [rows |-> Append(table, reading), err |-> FALSE]
    ELSE [rows |-> table, err |-> FALSE]

\* PostgresStore.Add: one INSERT; outcome is what the database answers
Add(table, reading, outcome) ==
    IF outcome = "ok"
    THEN [rows |-> Append(table, reading), err |-> FALSE]
    ELSE [rows |-> table, err |-> TRUE]

\* AddBatch without a transaction: a failing batch leaves its first row behind
AddBatch_Partial(table, readings, outcome) ==
    IF Len(readings) = 0 THEN [rows |-> table, err |-> FALSE]
    ELSE IF outcome = "ok" THEN [rows |-> table \o readings, err |-> FALSE]
    ELSE IF outcome = "batch_err" THEN [rows |-> Append(table, readings[1]), err |-> TRUE]
    ELSE [rows |-> table, err |-> TRUE]

\* PostgresStore.AddBatch: every INSERT in one transaction, which fails at
\* BeginTx, at SendBatch (rolled back) or at Commit
AddBatch(table, readings, outcome) ==
    IF Len(readings) = 0 THEN [rows |-> table, err |-> FALSE]
    ELSE IF outcome = "ok" THEN [rows |-> table \o readings, err |-> FALSE]
    ELSE [rows |-> table, err |-> TRUE]

AddOutcomes == {"ok", "exec_err"}
AddBatchOutcomes == {"ok", "begin_err", "batch_err", "commit_err"}

\* PostgresStore.Latest that returns the rows as the query yields them
Latest_NewestFirst(table, limit) ==
    LET lim == IF limit <= 0 THEN DefaultLatestLimit ELSE limit
        n == IF Len(table) < lim THEN Len(table) ELSE lim
    IN [i \in 1..n |-> table[Len(table) - i + 1]]

\* PostgresStore.Latest: ORDER BY id DESC LIMIT limit, then the rows read are
\* reversed in place
Latest(table, limit) ==
    LET lim == IF limit <= 0 THEN DefaultLatestLimit ELSE limit
        n == IF Len(table) < lim THEN Len(table) ELSE lim
        readings == [i \in 1..n |-> table[Len(table) - i + 1]]
    IN [i \in 1..n |-> readings[n - i + 1]]

(* ------------------------------------------------------------------ *)
(* Handler steps after the prelude.                                    *)
(* ------------------------------------------------------------------ *)
\* the handler after streamHub.publish(readings[idx]) has returned: the next
\* reading of the batch, then the insights engine if there is one, then 202
AfterPublish(rec) ==
    IF rec.idx < Len(rec.readings)
    THEN [rec EXCEPT !.pc = "publish", !.idx = rec.idx + 1, !.subs = <<>>]
    ELSE IF config.engine
    THEN [rec EXCEPT !.pc = "clock", !.idx = 1, !.subs = <<>>, !.informed = TRUE]
    ELSE [rec EXCEPT !.pc = "done", !.subs = <<>>, !.resp = 202, !.readings = <<>>,
                     !.idx = 0]

\* the handler starting its publish loop at the last reading of the array
AfterStore_LastFirst(rec) ==
    IF config.ops
    THEN [rec EXCEPT !.pc = "arrive", !.stored = TRUE]
    ELSE [rec EXCEPT !.pc = "publish", !.idx = Len(rec.readings), !.stored = TRUE]

\* the handler after a successful store write
AfterStore(rec) ==
    IF config.ops
    THEN [rec EXCEPT !.pc = "arrive", !.stored = TRUE]
    ELSE [rec EXCEPT !.pc = "publish", !.idx = 1, !.stored = TRUE]

\* the handler going on after a failed store write as after a successful one
StoreFailed_GoesOn(rec) ==
    IF config.ops
    THEN [rec EXCEPT !.pc = "arrive"]
    ELSE [rec EXCEPT !.pc = "publish", !.idx = 1]

\* the handler after a failed store write: 500 and return
StoreFailed(rec) == [rec EXCEPT !.pc = "done", !.resp = 500, !.readings = <<>>]

\* api.store.Add / api.store.AddBatch and the error check that follows
StoreStep(h) ==
    /\ hs[h].pc = "store"
    /\ \E outcome \in IF hs[h].route = "single" THEN AddOutcomes ELSE AddBatchOutcomes :
          LET res == IF hs[h].route = "single"
                     THEN Add(rows, hs[h].readings[1], outcome)
                     ELSE AddBatch(rows, hs[h].readings, outcome)
          IN /\ rows' = res.rows
             /\ hs' = [hs EXCEPT ![h] =
                          IF res.err THEN StoreFailed(hs[h]) ELSE AfterStore(hs[h])]
    /\ UNCHANGED <<constVars, sideVars, ret, now, hubVars, streamVars, nextSeq, requests, pubVars,
                   opsVars, mon, schedVars, ticker>>

\* time.Now(), the argument of onTelemetryReceived
Arrive(h) ==
    /\ hs[h].pc = "arrive"
    /\ hs' = [hs EXCEPT ![h].pc = "notify", ![h].now = now]
    /\ UNCHANGED <<constVars, sideVars, ret, now, rows, hubVars, streamVars, nextSeq, requests,
                   pubVars, opsVars, mon, schedVars, ticker>>

\* onTelemetryReceived that logs a connection at every arrival
onTelemetryReceived_Always(state, observedAt) ==
    [dev |-> [known |-> TRUE, connected |-> TRUE, seenAt |-> observedAt],
     events |-> <<[kind |-> "device_connected", ts |-> observedAt]>>]

\* API.onTelemetryReceived: the critical section, and the event it hands to
\* persistOpsEvent
onTelemetryReceived(state, observedAt) ==
    [dev |-> [known |-> TRUE, connected |-> TRUE, seenAt |-> observedAt],
     events |-> IF ~state.known \/ ~state.connected
                THEN <<[kind |-> "device_connected", ts |-> observedAt]>>
                ELSE <<>>]

\* the events handed to persistOpsEvent, each starting a goroutine
Emit(events) ==
    /\ opsEmitted' = opsEmitted \o events
    /\ opsPending' = opsPending \cup (Len(opsEmitted) + 1 .. Len(opsEmitted) + Len(events))

Notify(h) ==
    /\ hs[h].pc = "notify"
    /\ LET res == onTelemetryReceived(dev, hs[h].now)
       IN /\ dev' = res.dev
          /\ Emit(res.events)
    /\ hs' = [hs EXCEPT ![h].pc = "publish", ![h].idx = 1, ![h].notified = TRUE,
                          ![h].now = 0]
    /\ seenLatest' = IF hs[h].now > seenLatest THEN hs[h].now ELSE seenLatest
    /\ UNCHANGED <<constVars, shutdown, limiter, client, ret, now, rows, hubVars,
                   streamVars, nextSeq, requests, pubVars, opsEvents, mon, schedVars,
                   ticker>>

(* ------------------------------------------------------------------ *)
(* streamHub.                                                          *)
(* ------------------------------------------------------------------ *)
\* publish that returns once the subscribers are copied, its sends still to come
Publish_ReturnsEarly(h) ==
    /\ hs[h].pc = "publish"
    /\ LET r == hs[h].readings[hs[h].idx]
       IN /\ pubCalls' = IF config.trace
                          THEN Append(pubCalls, [r |-> r.ts, before |-> pubDone])
                          ELSE pubCalls
          /\ pubDone' = IF config.trace THEN pubDone \cup {r.ts} ELSE pubDone
          /\ \E order \in Perms(subscribers) :
                IF order = <<>>
                THEN hs' = [hs EXCEPT ![h] =
                               AfterPublish([hs[h] EXCEPT
                                   !.published = hs[h].published + 1])]
                ELSE hs' = [hs EXCEPT ![h].pc = "send", ![h].subs = order,
                                      ![h].published = hs[h].published + 1]
    /\ UNCHANGED <<constVars, sideVars, ret, now, rows, hubVars, streamVars, nextSeq, requests,
                   opsVars, mon, schedVars, ticker>>

\* streamHub.publish, first half: the subscribers copied under the read lock,
\* in the order the map range visits them
Publish(h) ==
    /\ hs[h].pc = "publish"
    /\ LET r == hs[h].readings[hs[h].idx]
       IN /\ pubCalls' = IF config.trace
                          THEN Append(pubCalls, [r |-> r.ts, before |-> pubDone])
                          ELSE pubCalls
          /\ \E order \in Perms(subscribers) :
                IF order = <<>>
                THEN /\ hs' = [hs EXCEPT ![h] =
                                 AfterPublish([hs[h] EXCEPT
                                     !.published = hs[h].published + 1])]
                     /\ pubDone' = IF config.trace THEN pubDone \cup {r.ts} ELSE pubDone
                ELSE /\ hs' = [hs EXCEPT ![h].pc = "send", ![h].subs = order,
                                          ![h].published = hs[h].published + 1]
                     /\ pubDone' = pubDone
    /\ UNCHANGED <<constVars, sideVars, ret, now, rows, hubVars, streamVars, nextSeq, requests,
                   opsVars, mon, schedVars, ticker>>

\* select { case subscriber <- reading: default: } on a channel with the
\* content buf: "sent", "dropped", or "panic" (a send on a closed channel)
TrySend(buf, closed) ==
    IF closed THEN "panic"
    ELSE IF Len(buf) < SubscriberBuffer THEN "sent"
    ELSE "dropped"

\* streamHub.publish, second half: one iteration of the send loop.  A panic
\* unwinds the handler: net/http recovers it and drops the connection, so
\* the request gets no response.
Send(h) ==
    /\ hs[h].pc = "send"
    /\ LET s == Head(hs[h].subs)
           r == hs[h].readings[hs[h].idx]
           res == TrySend(chanBuf[s], chanClosed[s])
           rest == Tail(hs[h].subs)
       IN /\ chanBuf' = IF res = "sent"
                        THEN [chanBuf EXCEPT ![s] = Append(@, r)]
                        ELSE chanBuf
          /\ IF res = "panic"
             THEN /\ hs' = [hs EXCEPT ![h].pc = "panicked", ![h].subs = <<>>,
                                       ![h].readings = <<>>, ![h].idx = 0]
                  /\ pubDone' = pubDone
             ELSE IF rest = <<>>
             THEN /\ hs' = [hs EXCEPT ![h] = AfterPublish(hs[h])]
                  /\ pubDone' = IF config.trace THEN pubDone \cup {r.ts} ELSE pubDone
             ELSE /\ hs' = [hs EXCEPT ![h].subs = rest]
                  /\ pubDone' = pubDone
    /\ UNCHANGED <<constVars, sideVars, ret, now, rows, subscribers, chanClosed, unsub,
                   streamVars, nextSeq, requests, pubCalls, opsVars, mon, schedVars,
                   ticker>>

\* API.handleStream up to its select loop: streamHub.subscribe
StreamOpen(s) ==
    /\ spc[s] = "idle"
    /\ spc' = [spc EXCEPT ![s] = "open"]
    /\ subscribers' = subscribers \cup {s}
    /\ UNCHANGED <<constVars, sideVars, ret, now, rows, chanBuf, chanClosed, unsub, received,
                   handlerVars, pubVars, opsVars, mon, schedVars, ticker>>

\* case reading := <-channel: the event is written, or the write fails and
\* the handler returns
StreamRecv(s) ==
    /\ spc[s] = "open"
    /\ chanBuf[s] # <<>>
    /\ chanBuf' = [chanBuf EXCEPT ![s] = Tail(@)]
    /\ \/ /\ received' = IF config.trace
                          THEN [received EXCEPT ![s] = Append(@, Head(chanBuf[s]))]
                          ELSE received
          /\ spc' = spc
       \/ /\ received' = received
          /\ spc' = [spc EXCEPT ![s] = "exiting"]
    /\ UNCHANGED <<constVars, sideVars, ret, now, rows, subscribers, chanClosed, unsub,
                   handlerVars, pubVars, opsVars, mon, schedVars, ticker>>

\* the closure without its test of exists: delete, which does nothing for a
\* channel that is no longer in the map, and close(channel) on every call
unsubscribe_NoTest(s) ==
    /\ subscribers' = subscribers \ {s}
    /\ chanClosed' = [chanClosed EXCEPT ![s] = TRUE]
    /\ unsub' = [unsub EXCEPT ![s].calls = @ + 1, ![s].closes = @ + 1]

\* the unsubscribe closure of streamHub.subscribe
unsubscribe(s) ==
    IF s \in subscribers
    THEN /\ subscribers' = subscribers \ {s}
         /\ chanClosed' = [chanClosed EXCEPT ![s] = TRUE]
         /\ unsub' = [unsub EXCEPT ![s].calls = @ + 1, ![s].closes = @ + 1]
    ELSE /\ UNCHANGED <<subscribers, chanClosed>>
         /\ unsub' = [unsub EXCEPT ![s].calls = @ + 1]

\* handleStream whose return after a failed event write skips unsubscribe
StreamClose_LeakOnWriteError(s) ==
    /\ spc[s] \in {"open", "exiting"}
    /\ spc' = [spc EXCEPT ![s] = "closed"]
    /\ IF spc[s] = "exiting" THEN UNCHANGED hubVars ELSE unsubscribe(s)
    /\ UNCHANGED <<constVars, sideVars, ret, now, rows, chanBuf, received, handlerVars,
                   pubVars, opsVars, mon, schedVars, ticker>>

\* the handler returns (the client went away, a heartbeat write failed, or
\* an event write failed before) and its deferred unsubscribe runs
StreamClose(s) ==
    /\ spc[s] \in {"open", "exiting"}
    /\ spc' = [spc EXCEPT ![s] = "closed"]
    /\ unsubscribe(s)
    /\ UNCHANGED <<constVars, sideVars, ret, now, rows, chanBuf, received, handlerVars,
                   pubVars, opsVars, mon, schedVars, ticker>>

(* ------------------------------------------------------------------ *)
(* InsightsScheduler.                                                  *)
(* ------------------------------------------------------------------ *)
Abs(x) == IF x < 0 THEN -x ELSE x

\* the zero values of InsightsSnapshot, of a recomputeLoop that is not running
\* and of the device state
NoSnapshot == [insights |-> 0, trigger |-> "none", samples |-> 0, at |-> 0]
IdleLoop == [pc |-> "none", trigger |-> "none", samples |-> 0, snap |-> NoSnapshot]
ZeroDevice == [known |-> FALSE, connected |-> FALSE, seenAt |-> 0]

FreeLoops == {g \in Loops : loops[g].pc = "none"}

\* requestRecompute without its test of running: every request starts a
\* recomputeLoop
requestRecompute_Unguarded(trigger) ==
    /\ FreeLoops # {}
    /\ sched' = [sched EXCEPT !.running = TRUE]
    /\ LET g == CHOOSE x \in FreeLoops : \A y \in FreeLoops : x <= y
       IN loops' = [loops EXCEPT ![g] = [IdleLoop EXCEPT !.pc = "load",
                                                          !.trigger = trigger]]
    /\ stats' = stats

\* requestRecompute that sets pending whenever it is called
requestRecompute_PendingAlways(trigger) ==
    IF sched.running
    THEN /\ sched' = [sched EXCEPT !.pending = TRUE]
         /\ loops' = loops
         /\ stats' = [stats EXCEPT !.arrived = @ + 1]
    ELSE /\ FreeLoops # {}
         /\ sched' = [sched EXCEPT !.running = TRUE, !.pending = TRUE]
         /\ LET g == CHOOSE x \in FreeLoops : \A y \in FreeLoops : x <= y
            IN loops' = [loops EXCEPT ![g] = [IdleLoop EXCEPT !.pc = "load",
                                                               !.trigger = trigger]]
         /\ stats' = [arrived |-> 1, coalesced |-> 0]

\* InsightsScheduler.requestRecompute: under scheduler.mu, either note the
\* request in pending or take running and start a recomputeLoop goroutine
requestRecompute(trigger) ==
    IF sched.running
    THEN /\ sched' = [sched EXCEPT !.pending = TRUE]
         /\ loops' = loops
         /\ stats' = [stats EXCEPT !.arrived = @ + 1]
    ELSE /\ FreeLoops # {}
         /\ sched' = [sched EXCEPT !.running = TRUE]
         /\ LET g == CHOOSE x \in FreeLoops : \A y \in FreeLoops : x <= y
            IN loops' = [loops EXCEPT ![g] = [IdleLoop EXCEPT !.pc = "load",
                                                               !.trigger = trigger]]
         /\ stats' = [arrived |-> 0, coalesced |-> 0]

\* shouldTriggerFromReading without its throttle
shouldTriggerFromReading_Unthrottled(state, reading, at) ==
    IF state.lastReading = <<>>
    THEN [sched |-> [state EXCEPT !.lastReading = <<reading>>], trigger |-> FALSE]
    ELSE LET previous == state.lastReading[1]
             seen == [state EXCEPT !.lastReading = <<reading>>]
             pm2Crossed == previous.pm2 < PM2Threshold /\ reading.pm2 >= PM2Threshold
             pm10Crossed == previous.pm10 < PM10Threshold /\ reading.pm10 >= PM10Threshold
             pm2Jumped == Abs(reading.pm2 - previous.pm2) >= PM2DeltaTrigger
             pm10Jumped == Abs(reading.pm10 - previous.pm10) >= PM10DeltaTrigger
         IN IF ~(pm2Crossed \/ pm10Crossed \/ pm2Jumped \/ pm10Jumped)
            THEN [sched |-> seen, trigger |-> FALSE]
            ELSE [sched |-> [seen EXCEPT !.lastEventTrigger = at], trigger |-> TRUE]

\* shouldTriggerFromReading that notes the time of a rejected reading as if
\* it had been accepted
shouldTriggerFromReading_RejectionCounts(state, reading, at) ==
    IF state.lastReading = <<>>
    THEN [sched |-> [state EXCEPT !.lastReading = <<reading>>], trigger |-> FALSE]
    ELSE LET previous == state.lastReading[1]
             seen == [state EXCEPT !.lastReading = <<reading>>, !.lastEventTrigger = at]
             pm2Crossed == previous.pm2 < PM2Threshold /\ reading.pm2 >= PM2Threshold
             pm10Crossed == previous.pm10 < PM10Threshold /\ reading.pm10 >= PM10Threshold
             pm2Jumped == Abs(reading.pm2 - previous.pm2) >= PM2DeltaTrigger
             pm10Jumped == Abs(reading.pm10 - previous.pm10) >= PM10DeltaTrigger
         IN IF ~(pm2Crossed \/ pm10Crossed \/ pm2Jumped \/ pm10Jumped)
            THEN [sched |-> seen, trigger |-> FALSE]
            ELSE IF state.lastEventTrigger # 0
                    /\ at - state.lastEventTrigger < EventMinInterval
            THEN [sched |-> seen, trigger |-> FALSE]
            ELSE [sched |-> seen, trigger |-> TRUE]

\* shouldTriggerFromReading that compares the differences themselves, not
\* their absolute values: only a rise is a jump
shouldTriggerFromReading_RiseOnly(state, reading, at) ==
    IF state.lastReading = <<>>
    THEN [sched |-> [state EXCEPT !.lastReading = <<reading>>], trigger |-> FALSE]
    ELSE LET previous == state.lastReading[1]
             seen == [state EXCEPT !.lastReading = <<reading>>]
             pm2Crossed == previous.pm2 < PM2Threshold /\ reading.pm2 >= PM2Threshold
             pm10Crossed == previous.pm10 < PM10Threshold /\ reading.pm10 >= PM10Threshold
             pm2Jumped == reading.pm2 - previous.pm2 >= PM2DeltaTrigger
             pm10Jumped == reading.pm10 - previous.pm10 >= PM10DeltaTrigger
         IN IF ~(pm2Crossed \/ pm10Crossed \/ pm2Jumped \/ pm10Jumped)
            THEN [sched |-> seen, trigger |-> FALSE]
            ELSE IF state.lastEventTrigger # 0
                    /\ at - state.lastEventTrigger < EventMinInterval
            THEN [sched |-> seen, trigger |-> FALSE]
            ELSE [sched |-> [seen EXCEPT !.lastEventTrigger = at], trigger |-> TRUE]

\* shouldTriggerFromReading that compares the first reading with the zero
\* value of SensorReading
shouldTriggerFromReading_FirstCompared(state, reading, at) ==
    LET previous == IF state.lastReading = <<>> THEN [reading EXCEPT !.pm2 = 0, !.pm10 = 0]
                    ELSE state.lastReading[1]
        seen == [state EXCEPT !.lastReading = <<reading>>]
        pm2Crossed == previous.pm2 < PM2Threshold /\ reading.pm2 >= PM2Threshold
        pm10Crossed == previous.pm10 < PM10Threshold /\ reading.pm10 >= PM10Threshold
        pm2Jumped == Abs(reading.pm2 - previous.pm2) >= PM2DeltaTrigger
        pm10Jumped == Abs(reading.pm10 - previous.pm10) >= PM10DeltaTrigger
    IN IF ~(pm2Crossed \/ pm10Crossed \/ pm2Jumped \/ pm10Jumped)
       THEN [sched |-> seen, trigger |-> FALSE]
       ELSE IF state.lastEventTrigger # 0
               /\ at - state.lastEventTrigger < EventMinInterval
       THEN [sched |-> seen, trigger |-> FALSE]
       ELSE [sched |-> [seen EXCEPT !.lastEventTrigger = at], trigger |-> TRUE]

\* InsightsScheduler.shouldTriggerFromReading, with now as read before the
\* lock was taken: the scheduler's fields afterwards and the answer
shouldTriggerFromReading(state, reading, at) ==
    IF state.lastReading = <<>>
    THEN [sched |-> [state EXCEPT !.lastReading = <<reading>>], trigger |-> FALSE]
    ELSE LET previous == state.lastReading[1]
             seen == [state EXCEPT !.lastReading = <<reading>>]
             pm2Crossed == previous.pm2 < PM2Threshold /\ reading.pm2 >= PM2Threshold
             pm10Crossed == previous.pm10 < PM10Threshold /\ reading.pm10 >= PM10Threshold
             pm2Jumped == Abs(reading.pm2 - previous.pm2) >= PM2DeltaTrigger
             pm10Jumped == Abs(reading.pm10 - previous.pm10) >= PM10DeltaTrigger
         IN IF ~(pm2Crossed \/ pm10Crossed \/ pm2Jumped \/ pm10Jumped)
            THEN [sched |-> seen, trigger |-> FALSE]
            ELSE IF state.lastEventTrigger # 0
                    /\ at - state.lastEventTrigger < EventMinInterval
            THEN [sched |-> seen, trigger |-> FALSE]
            ELSE [sched |-> [seen EXCEPT !.lastEventTrigger = at], trigger |-> TRUE]

\* time.Now() at the top of shouldTriggerFromReading
Clock(h) ==
    /\ hs[h].pc = "clock"
    /\ hs' = [hs EXCEPT ![h].pc = "should", ![h].now = now]
    /\ UNCHANGED <<constVars, sideVars, ret, now, rows, hubVars, streamVars, nextSeq, requests,
                   pubVars, opsVars, mon, schedVars, ticker>>

\* the handler after OnReading or OnBatch has returned
Accepted(rec) == [rec EXCEPT !.pc = "done", !.resp = 202, !.readings = <<>>, !.idx = 0]

\* the critical section of shouldTriggerFromReading, in OnReading or in the
\* loop of OnBatch
Should(h) ==
    /\ hs[h].pc = "should"
    /\ LET res == shouldTriggerFromReading(sched, hs[h].readings[hs[h].idx], hs[h].now)
       IN /\ sched' = res.sched
          /\ hs' = [hs EXCEPT ![h] =
                       IF res.trigger THEN [@ EXCEPT !.pc = "request", !.now = 0]
                       ELSE IF hs[h].idx < Len(hs[h].readings)
                       THEN [@ EXCEPT !.pc = "clock", !.idx = hs[h].idx + 1, !.now = 0]
                       ELSE Accepted([@ EXCEPT !.now = 0])]
    /\ UNCHANGED <<constVars, sideVars, ret, now, rows, hubVars, streamVars, nextSeq, requests,
                   pubVars, opsVars, mon, loops, savedSnapshot, stats, ticker>>

\* scheduler.requestRecompute("event"), after which OnReading and OnBatch return
RequestEvent(h) ==
    /\ hs[h].pc = "request"
    /\ requestRecompute("event")
    /\ hs' = [hs EXCEPT ![h] = Accepted(@)]
    /\ UNCHANGED <<constVars, sideVars, ret, now, rows, hubVars, streamVars, nextSeq, requests,
                   pubVars, opsVars, mon, savedSnapshot, ticker>>

\* the ticker goroutine of InsightsScheduler.Start
IntervalTick ==
    /\ config.engine
    /\ now >= ticker
    /\ ticker' = ticker + RefreshInterval
    /\ requestRecompute("interval")
    /\ UNCHANGED <<constVars, sideVars, ret, now, rows, hubVars, streamVars, handlerVars,
                   pubVars, opsVars, mon, savedSnapshot>>

\* recompute: scheduler.store.Latest, which fails or answers; a failure ends
\* the recompute, an answer is passed to analyzer.Analyze
LoopLoad(g) ==
    /\ loops[g].pc = "load"
    /\ \/ loops' = [loops EXCEPT ![g].pc = "check"]
       \/ loops' = [loops EXCEPT ![g].pc = "analyze",
                                 ![g].samples = Len(Latest(rows, AnalysisLimit))]
    /\ UNCHANGED <<constVars, sideVars, ret, now, rows, hubVars, streamVars, handlerVars, pubVars,
                   opsVars, mon, sched, savedSnapshot, stats, ticker>>

\* recompute that drops the snapshot it has when analyzer.Analyze fails
LoopAnalyze_ClearsOnError(g, Alerts) ==
    /\ loops[g].pc = "analyze"
    /\ \/ /\ loops' = [loops EXCEPT ![g].pc = "check"]
          /\ sched' = [sched EXCEPT !.snapshot = NoSnapshot, !.hasSnapshot = FALSE]
       \/ \E k \in Alerts :
             LET snapshot == [insights |-> k, trigger |-> loops[g].trigger,
                              samples |-> loops[g].samples, at |-> now]
             IN /\ sched' = [sched EXCEPT !.snapshot = snapshot, !.hasSnapshot = TRUE]
                /\ loops' = [loops EXCEPT ![g].pc = "save", ![g].snap = snapshot]
    /\ UNCHANGED <<constVars, sideVars, ret, now, rows, hubVars, streamVars, handlerVars, pubVars,
                   opsVars, mon, savedSnapshot, stats, ticker>>

\* recompute: analyzer.Analyze returns; on an error the recompute ends, else
\* the snapshot is built and installed under scheduler.mu.  Alerts is what the
\* analyzer may answer: how many alerts.
LoopAnalyze(g, Alerts) ==
    /\ loops[g].pc = "analyze"
    /\ \/ /\ loops' = [loops EXCEPT ![g].pc = "check"]
          /\ sched' = sched
       \/ \E k \in Alerts :
             LET snapshot == [insights |-> k, trigger |-> loops[g].trigger,
                              samples |-> loops[g].samples, at |-> now]
             IN /\ sched' = [sched EXCEPT !.snapshot = snapshot, !.hasSnapshot = TRUE]
                /\ loops' = [loops EXCEPT ![g].pc = "save", ![g].snap = snapshot]
    /\ UNCHANGED <<constVars, sideVars, ret, now, rows, hubVars, streamVars, handlerVars, pubVars,
                   opsVars, mon, savedSnapshot, stats, ticker>>

\* recompute: SaveInsightsSnapshot, an upsert that succeeds or fails
LoopSave(g) ==
    /\ loops[g].pc = "save"
    /\ \/ savedSnapshot' = [found |-> TRUE, value |-> loops[g].snap]
       \/ savedSnapshot' = savedSnapshot
    /\ loops' = [loops EXCEPT ![g].pc = "check", ![g].snap = NoSnapshot]
    /\ UNCHANGED <<constVars, sideVars, ret, now, rows, hubVars, streamVars, handlerVars, pubVars,
                   opsVars, mon, sched, stats, ticker>>

\* recomputeLoop that goes round again for a pending request without
\* clearing pending
LoopCheck_KeepPending(g) ==
    /\ loops[g].pc = "check"
    /\ IF sched.pending
       THEN /\ sched' = sched
            /\ loops' = [loops EXCEPT ![g] = [IdleLoop EXCEPT !.pc = "load",
                                                              !.trigger = "pending"]]
            /\ stats' = [arrived |-> 0, coalesced |-> stats.arrived]
       ELSE /\ sched' = [sched EXCEPT !.running = FALSE]
            /\ loops' = [loops EXCEPT ![g] = IdleLoop]
            /\ stats' = [arrived |-> 0, coalesced |-> 0]
    /\ UNCHANGED <<constVars, sideVars, ret, now, rows, hubVars, streamVars, handlerVars, pubVars,
                   opsVars, mon, savedSnapshot, ticker>>

\* recomputeLoop that ends without looking at pending
LoopCheck_ForgetsPending(g) ==
    /\ loops[g].pc = "check"
    /\ sched' = [sched EXCEPT !.running = FALSE, !.pending = FALSE]
    /\ loops' = [loops EXCEPT ![g] = IdleLoop]
    /\ stats' = [arrived |-> 0, coalesced |-> 0]
    /\ UNCHANGED <<constVars, sideVars, ret, now, rows, hubVars, streamVars, handlerVars,
                   pubVars, opsVars, mon, savedSnapshot, ticker>>

\* recomputeLoop after recompute has returned: under scheduler.mu, go round
\* again for a pending request or give up running and end
LoopCheck(g) ==
    /\ loops[g].pc = "check"
    /\ IF sched.pending
       THEN /\ sched' = [sched EXCEPT !.pending = FALSE]
            /\ loops' = [loops EXCEPT ![g] = [IdleLoop EXCEPT !.pc = "load",
                                                              !.trigger = "pending"]]
            /\ stats' = [arrived |-> 0, coalesced |-> stats.arrived]
       ELSE /\ sched' = [sched EXCEPT !.running = FALSE]
            /\ loops' = [loops EXCEPT ![g] = IdleLoop]
            /\ stats' = [arrived |-> 0, coalesced |-> 0]
    /\ UNCHANGED <<constVars, sideVars, ret, now, rows, hubVars, streamVars, handlerVars, pubVars,
                   opsVars, mon, savedSnapshot, ticker>>

(* ------------------------------------------------------------------ *)
(* Device monitor and ops events.                                      *)
(* ------------------------------------------------------------------ *)
\* the monitor goroutine receives a tick: the time the ticker sent, which is
\* the first tick not yet received; ticks that found the channel full are lost
MonitorTick ==
    /\ mon.pc = "wait"
    /\ now >= mon.next
    /\ mon' = [pc |-> "eval", at |-> mon.next,
               next |-> mon.next
                        + MonitorInterval * ((now - mon.next) \div MonitorInterval + 1)]
    /\ UNCHANGED <<constVars, sideVars, ret, now, rows, hubVars, streamVars, handlerVars, pubVars,
                   opsVars, schedVars, ticker>>

\* evaluateDeviceDisconnect that logs the disconnection and leaves
\* deviceConnected set
evaluateDeviceDisconnect_StaysConnected(state, at) ==
    IF /\ state.known
       /\ state.connected
       /\ state.seenAt # 0
       /\ at - state.seenAt >= DeviceOfflineTimeout
    THEN [dev |-> state,
          events |-> <<[kind |-> "device_disconnected", ts |-> at]>>]
    ELSE [dev |-> state, events |-> <<>>]

\* API.evaluateDeviceDisconnect: the critical section, and the event it hands
\* to persistOpsEvent
evaluateDeviceDisconnect(state, at) ==
    IF /\ state.known
       /\ state.connected
       /\ state.seenAt # 0
       /\ at - state.seenAt >= DeviceOfflineTimeout
    THEN [dev |-> [state EXCEPT !.connected = FALSE],
          events |-> <<[kind |-> "device_disconnected", ts |-> at]>>]
    ELSE [dev |-> state, events |-> <<>>]

MonitorEval ==
    /\ mon.pc = "eval"
    /\ LET res == evaluateDeviceDisconnect(dev, mon.at)
       IN /\ dev' = res.dev
          /\ Emit(res.events)
    /\ mon' = [mon EXCEPT !.pc = "wait"]
    /\ UNCHANGED <<constVars, sideVars, ret, now, rows, hubVars, streamVars, handlerVars, pubVars,
                   opsEvents, schedVars, ticker>>

\* a persistOpsEvent goroutine runs: AddOpsEvent inserts the event, or fails
\* and the event is only logged
PersistOps(i) ==
    /\ i \in opsPending
    /\ opsPending' = opsPending \ {i}
    /\ \/ opsEvents' = Append(opsEvents, opsEmitted[i])
       \/ opsEvents' = opsEvents
    /\ UNCHANGED <<constVars, sideVars, ret, now, rows, hubVars, streamVars, handlerVars, pubVars,
                   dev, opsEmitted, mon, schedVars, ticker>>

\* PostgresStore.LatestOpsEvents: ORDER BY id DESC LIMIT limit
LatestOpsEvents(table, limit) ==
    LET lim == IF limit <= 0 THEN DefaultOpsLimit
               ELSE IF limit > MaxOpsLimit THEN MaxOpsLimit ELSE limit
        n == IF Len(table) < lim THEN Len(table) ELSE lim
    IN [i \in 1..n |-> table[Len(table) - i + 1]]

\* initializeDeviceState that adopts the first event loaded, of whatever kind
initializeDeviceState_AnyKind(events) ==
    IF events = <<>> THEN ZeroDevice
    ELSE [known |-> TRUE, connected |-> Head(events).kind # "device_disconnected",
          seenAt |-> Head(events).ts]

RECURSIVE initializeDeviceState(_)
\* API.initializeDeviceState over the events loaded: the first connectivity
\* event decides, other kinds are passed over
initializeDeviceState(events) ==
    IF events = <<>> THEN ZeroDevice
    ELSE IF Head(events).kind = "device_connected"
    THEN [known |-> TRUE, connected |-> TRUE, seenAt |-> Head(events).ts]
    ELSE IF Head(events).kind = "device_disconnected"
    THEN [known |-> TRUE, connected |-> FALSE, seenAt |-> Head(events).ts]
    ELSE initializeDeviceState(Tail(events))

\* the clock advances, up to the end of the run
TickUntil(end) ==
    /\ now < end
    /\ now' = now + 1
    /\ UNCHANGED <<constVars, sideVars, ret, rows, hubVars, streamVars, handlerVars, pubVars,
                   opsVars, mon, schedVars, ticker>>

Tick == TickUntil(MaxTime)

(* ------------------------------------------------------------------ *)
(* The request limiter and the client identity.                        *)
(* ------------------------------------------------------------------ *)
\* the size of the entries map from which Allow removes old windows
CleanupThreshold == 512

\* newRequestLimiter: entries maps a key to its window, start and count;
\* plain is what entries would be if cleanup had never run
newRequestLimiter(limit, window) ==
    [limit |-> IF limit < 1 THEN 1 ELSE limit,
     window |-> IF window <= 0 THEN RateWindow ELSE window,
     entries |-> <<>>,
     plain |-> <<>>,
     calls |-> <<>>]

\* cleanup that deletes every window that began before the call
cleanup_Eager(entries, window, at) ==
    IF Cardinality(DOMAIN entries) < CleanupThreshold THEN entries
    ELSE [k \in {x \in DOMAIN entries : ~(at - entries[x].start > 0)}
             |-> entries[k]]

\* requestLimiter.cleanup: once the map holds CleanupThreshold keys, the
\* windows older than three window lengths are deleted
cleanup(entries, window, at) ==
    IF Cardinality(DOMAIN entries) < CleanupThreshold THEN entries
    ELSE [k \in {x \in DOMAIN entries : ~(at - entries[x].start > 3 * window)}
             |-> entries[k]]

\* Allow whose refusal starts the key's window again at the time of the call
Allow_RefusalRestarts(lim, rawKey, at) ==
    LET key == IF rawKey = "" THEN "unknown" ELSE rawKey
        held == IF key \in DOMAIN lim.entries THEN lim.entries[key]
                ELSE [start |-> 0, count |-> 0]
        window == IF held.start = 0 \/ at - held.start >= lim.window
                  THEN [start |-> at, count |-> 0]
                  ELSE held
        Put(w) == [k \in DOMAIN lim.entries \cup {key} |->
                      IF k = key THEN w ELSE lim.entries[k]]
    IN IF window.count >= lim.limit
       THEN [ok |-> FALSE, entries |-> Put([window EXCEPT !.start = at])]
       ELSE [ok |-> TRUE,
             entries |-> cleanup(Put([window EXCEPT !.count = @ + 1]), lim.window, at)]

\* requestLimiter.Allow, under limiter.mu: the key's window is renewed when
\* it has no start or began a window length ago or more; a full window
\* refuses, otherwise the request is counted
Allow(lim, rawKey, at) ==
    LET key == IF rawKey = "" THEN "unknown" ELSE rawKey
        held == IF key \in DOMAIN lim.entries THEN lim.entries[key]
                ELSE [start |-> 0, count |-> 0]
        window == IF held.start = 0 \/ at - held.start >= lim.window
                  THEN [start |-> at, count |-> 0]
                  ELSE held
        Put(w) == [k \in DOMAIN lim.entries \cup {key} |->
                      IF k = key THEN w ELSE lim.entries[k]]
    IN IF window.count >= lim.limit
       THEN [ok |-> FALSE, entries |-> Put(window)]
       ELSE [ok |-> TRUE,
             entries |-> cleanup(Put([window EXCEPT !.count = @ + 1]), lim.window, at)]

\* Allow without its call of cleanup
AllowKeepingAll(lim, rawKey, at) ==
    LET key == IF rawKey = "" THEN "unknown" ELSE rawKey
        held == IF key \in DOMAIN lim.entries THEN lim.entries[key]
                ELSE [start |-> 0, count |-> 0]
        window == IF held.start = 0 \/ at - held.start >= lim.window
                  THEN [start |-> at, count |-> 0]
                  ELSE held
        Put(w) == [k \in DOMAIN lim.entries \cup {key} |->
                      IF k = key THEN w ELSE lim.entries[k]]
    IN IF window.count >= lim.limit
       THEN [ok |-> FALSE, entries |-> Put(window)]
       ELSE [ok |-> TRUE, entries |-> Put([window EXCEPT !.count = @ + 1])]

\* a caller of Allow with time.Now(); calls records key, time and answer
LimiterAllow(key) ==
    /\ Len(limiter.calls) < MaxAllowCalls
    /\ LET res == Allow(limiter, key, now)
           kept == AllowKeepingAll([limiter EXCEPT !.entries = limiter.plain], key, now)
       IN limiter' = [limiter EXCEPT !.entries = res.entries,
                                     !.plain = kept.entries,
                                     !.calls = Append(@, [key |-> key, at |-> now,
                                                          ok |-> res.ok])]
    /\ UNCHANGED <<constVars, shutdown, client, seenLatest, ret, now, rows, hubVars, streamVars,
                   handlerVars, pubVars, opsVars, mon, schedVars, ticker>>

\* clientIdentity that reads the forwarding headers whatever the flag says
clientIdentity_TrustsAlways(request, trustProxyHeaders) ==
    LET IndexOf(str, c) == IF c \in Elems(str)
                           THEN CHOOSE i \in DOMAIN str :
                                   str[i] = c /\ \A j \in 1..(i - 1) : str[j] # c
                           ELSE 0
        LastIndexOf(str, c) == IF c \in Elems(str)
                               THEN CHOOSE i \in DOMAIN str :
                                       str[i] = c /\ \A j \in (i + 1)..Len(str) : str[j] # c
                               ELSE 0
        forwardedFor == TrimSpace(request.xff)
        firstHop == TrimSpace(IF IndexOf(forwardedFor, ",") = 0 THEN forwardedFor
                              ELSE SubSeq(forwardedFor, 1, IndexOf(forwardedFor, ",") - 1))
        realIP == TrimSpace(request.xri)
        remote == TrimSpace(request.remote)
        colon == LastIndexOf(remote, ":")
        host == SubSeq(remote, 1, colon - 1)
        splitOk == colon # 0 /\ ":" \notin Elems(host)
    IN IF forwardedFor # <<>> /\ firstHop # <<>> THEN firstHop
       ELSE IF realIP # <<>> THEN realIP
       ELSE IF splitOk /\ host # <<>> THEN host
       ELSE remote

\* clientIdentity: with trustProxyHeaders the first hop of X-Forwarded-For,
\* else X-Real-IP; otherwise, and when both are blank, the host of RemoteAddr
\* as net.SplitHostPort gives it (addresses without brackets: the last colon
\* splits, no colon or a colon in the host is an error), else RemoteAddr
clientIdentity(request, trustProxyHeaders) ==
    LET IndexOf(str, c) == IF c \in Elems(str)
                           THEN CHOOSE i \in DOMAIN str :
                                   str[i] = c /\ \A j \in 1..(i - 1) : str[j] # c
                           ELSE 0
        LastIndexOf(str, c) == IF c \in Elems(str)
                               THEN CHOOSE i \in DOMAIN str :
                                       str[i] = c /\ \A j \in (i + 1)..Len(str) : str[j] # c
                               ELSE 0
        forwardedFor == TrimSpace(request.xff)
        firstHop == TrimSpace(IF IndexOf(forwardedFor, ",") = 0 THEN forwardedFor
                              ELSE SubSeq(forwardedFor, 1, IndexOf(forwardedFor, ",") - 1))
        realIP == TrimSpace(request.xri)
        remote == TrimSpace(request.remote)
        colon == LastIndexOf(remote, ":")
        host == SubSeq(remote, 1, colon - 1)
        splitOk == colon # 0 /\ ":" \notin Elems(host)
    IN IF trustProxyHeaders /\ forwardedFor # <<>> /\ firstHop # <<>> THEN firstHop
       ELSE IF trustProxyHeaders /\ realIP # <<>> THEN realIP
       ELSE IF splitOk /\ host # <<>> THEN host
       ELSE remote

\* no call of clientIdentity yet
NoClient == [called |-> FALSE, request |-> [remote |-> <<>>, xff |-> <<>>, xri |-> <<>>],
             trust |-> FALSE, identity |-> <<>>]

\* a request arrives and its identity is taken
Identify(request, trustProxyHeaders) ==
    /\ client' = [called |-> TRUE, request |-> request, trust |-> trustProxyHeaders,
                  identity |-> clientIdentity(request, trustProxyHeaders)]
    /\ UNCHANGED <<constVars, shutdown, limiter, seenLatest, ret, now, rows, hubVars, streamVars,
                   handlerVars, pubVars, opsVars, mon, schedVars, ticker>>

\* the owner of the API asks its background goroutines to stop.  NewAPI
\* starts the scheduler and the monitor with context.Background() and main
\* starts the retention worker without a context, so no goroutine has a
\* channel on which this could reach it.
Shutdown ==
    /\ shutdown = 0
    /\ shutdown' = now
    /\ UNCHANGED <<constVars, limiter, client, seenLatest, ret, now, rows, hubVars, streamVars,
                   handlerVars, pubVars, opsVars, mon, schedVars, ticker>>

(* ------------------------------------------------------------------ *)
(* Construction: NewAPI.                                               *)
(* ------------------------------------------------------------------ *)

\* the retention worker when RETENTION_ENABLED is false: never started;
\* deleted counts the rows the run under way has deleted, last is how the
\* last run ended
RetentionOff == [pc |-> "off", cutoff |-> 0, deleted |-> 0, next |-> 0, last |-> "none"]

\* the API over a sensor_readings table as earlier runs left it, and a
\* request limiter
InitIngestWith(table, lim) ==
    /\ ingestAPIKey = TrimSpace(EnvIngestAPIKey)
    /\ now = 1
    /\ rows = table
    /\ subscribers = {}
    /\ chanBuf = [s \in Streams |-> <<>>]
    /\ chanClosed = [s \in Streams |-> FALSE]
    /\ unsub = [s \in Streams |-> [calls |-> 0, closes |-> 0]]
    /\ spc = [s \in Streams |-> "idle"]
    /\ received = [s \in Streams |-> <<>>]
    /\ hs = [h \in Handlers |-> IdleHandler]
    /\ nextSeq = 1
    /\ requests = 0
    /\ pubCalls = <<>>
    /\ pubDone = {}
    /\ shutdown = 0
    /\ limiter = lim
    /\ client = NoClient
    /\ seenLatest = 0

InitIngest(table) == InitIngestWith(table, newRequestLimiter(RateLimit, RateWindow))

\* an empty database, retention switched off
InitHub ==
    /\ InitIngest(<<>>)
    /\ ret = RetentionOff

\* a store that is no OpsEventStore: no device state, no monitor
InitNoOps ==
    /\ dev = ZeroDevice
    /\ mon = [pc |-> "off", at |-> 0, next |-> 0]
    /\ opsEmitted = <<>>
    /\ opsPending = {}
    /\ opsEvents = <<>>

\* no analyzer: api.insightsEngine stays nil
InitNoEngine ==
    /\ sched = [running |-> FALSE, pending |-> FALSE, hasSnapshot |-> FALSE,
                snapshot |-> NoSnapshot, lastReading |-> <<>>, lastEventTrigger |-> 0]
    /\ loops = [g \in Loops |-> IdleLoop]
    /\ ticker = 0
    /\ savedSnapshot = [found |-> FALSE, value |-> NoSnapshot]
    /\ stats = [arrived |-> 0, coalesced |-> 0]

\* ops_events as earlier runs of the process left it
OpsHistories ==
    {<<>>,
     <<[kind |-> "device_connected", ts |-> 1]>>,
     <<[kind |-> "device_connected", ts |-> 1],
       [kind |-> "device_disconnected", ts |-> 1],
       [kind |-> "backend_restarted", ts |-> 1]>>}

\* a store that is an OpsEventStore: initializeDeviceState (whose load of the
\* events can fail), startDeviceMonitor, persistOpsEvent("backend_restarted")
InitOpsOver(histories) ==
    /\ opsEvents \in histories
    /\ dev \in {initializeDeviceState(LatestOpsEvents(opsEvents, InitOpsLimit)),
                ZeroDevice}
    /\ mon = [pc |-> "wait", at |-> 0, next |-> 1 + MonitorInterval]
    /\ opsEmitted = <<[kind |-> "backend_restarted", ts |-> 1]>>
    /\ opsPending = {1}

InitOps == InitOpsOver(OpsHistories)

\* insights_snapshots as earlier runs left it
SnapshotHistories ==
    {[found |-> FALSE, value |-> NoSnapshot],
     [found |-> TRUE,
      value |-> [insights |-> 1, trigger |-> "interval", samples |-> 1, at |-> 1]]}

\* an analyzer: NewInsightsScheduler and Start, that is loadSnapshotFromStore
\* (whose load can fail), requestRecompute("startup") and the refresh ticker
InitEngine ==
    /\ savedSnapshot \in SnapshotHistories
    /\ \E loaded \in {savedSnapshot, [found |-> FALSE, value |-> NoSnapshot]} :
          sched = [running |-> TRUE, pending |-> FALSE, hasSnapshot |-> loaded.found,
                   snapshot |-> loaded.value, lastReading |-> <<>>,
                   lastEventTrigger |-> 0]
    /\ loops = [g \in Loops |-> IF g = 1
                                THEN [IdleLoop EXCEPT !.pc = "load", !.trigger = "startup"]
                                ELSE IdleLoop]
    /\ ticker = 1 + RefreshInterval
    /\ stats = [arrived |-> 0, coalesced |-> 0]

(* ------------------------------------------------------------------ *)
(* The stream hub under ingest: no analyzer, no ops store.             *)
(* ------------------------------------------------------------------ *)
HubPMs == {<<1, 1>>}

InitStream ==
    /\ config = [engine |-> FALSE, ops |-> FALSE, trace |-> TRUE]
    /\ InitHub
    /\ InitNoOps
    /\ InitNoEngine

NextStream ==
    \/ \E h \in Handlers : \E req \in Fits(GoodRequests(nextSeq, HubPMs), nextSeq) :
            Begin(h, req)
    \/ \E h \in Handlers : StoreStep(h)
    \/ \E h \in Handlers : Publish(h)
    \/ \E h \in Handlers : Send(h)
    \/ \E s \in Streams : StreamOpen(s)
    \/ \E s \in Streams : StreamRecv(s)
    \/ \E s \in Streams : StreamClose(s)

SpecStream == InitStream /\ [][NextStream]_vars

\* what a subscriber has been handed so far, in channel order: the events its
\* stream handler wrote, then what waits in its channel
Delivered(s) == received[s] \o chanBuf[s]

\* the position of the publish call for the reading with timestamp ts among
\* all publish calls, in the order they were made
CallIndex(ts) == CHOOSE i \in DOMAIN pubCalls : pubCalls[i].r = ts

\* C3: streamHub.publish always returns, without waiting: each iteration of
\* its send loop enqueues the reading if the subscriber's buffer has room,
\* drops it for that subscriber alone if the buffer is full, and goes on.
C3_PublishAlwaysReturns ==
    [][\A h \in Handlers :
          hs[h].pc = "send" /\ hs'[h] # hs[h] =>
             LET s == Head(hs[h].subs)
                 r == hs[h].readings[hs[h].idx]
             IN /\ hs'[h].pc # "panicked"
                /\ chanBuf'[s] = IF Len(chanBuf[s]) < SubscriberBuffer
                                 THEN Append(chanBuf[s], r)
                                 ELSE chanBuf[s]
                /\ \A o \in Streams \ {s} : chanBuf'[o] = chanBuf[o]]_vars

C5_PublishAfterCommit ==
    /\ \A h \in Handlers :
          hs[h].pc \in {"publish", "send"} =>
             /\ hs[h].stored
             /\ \A r \in Elems(hs[h].readings) : r \in Elems(rows)
    /\ \A h \in Handlers : hs[h].published > 0 => hs[h].stored
    /\ \A i \in DOMAIN pubCalls : \E r \in Elems(rows) : r.ts = pubCalls[i].r
    /\ \A s \in Streams : \A r \in Elems(Delivered(s)) : r \in Elems(rows)

\* a subscriber has been handed a reading while another request was refused
\* with 500 for a failed store write
C5_Witness ==
    /\ \E s \in Streams : received[s] # <<>>
    /\ \E h \in Handlers : hs[h].resp = 500 /\ hs[h].published = 0

\* the publish calls made so far for the readings of handler h, in call order
BatchCalls(h) ==
    LET mine == {hs[h].readings[i].ts : i \in DOMAIN hs[h].readings}
        calls == SelectSeq(pubCalls, LAMBDA c : c.r \in mine)
    IN [i \in DOMAIN calls |-> calls[i].r]

\* C9: a batch handler inside its publish loop has committed its whole batch,
\* as one run of rows in array order, and the publish calls it has made are
\* for the first readings of the array, in array order.
C9_BatchPublishOrder ==
    \A h \in Handlers :
        hs[h].route = "batch" /\ hs[h].pc \in {"publish", "send"} =>
           LET n == Len(hs[h].readings)
               made == IF hs[h].pc = "publish" THEN hs[h].idx - 1 ELSE hs[h].idx
           IN /\ \E k \in 1..Len(rows) : SubSeq(rows, k, k + n - 1) = hs[h].readings
              /\ hs[h].published = made
              /\ BatchCalls(h) = [i \in 1..made |-> hs[h].readings[i].ts]

\* a batch handler is sending its second reading to a subscriber that has
\* written the first
C9_Witness ==
    \E h \in Handlers : \E s \in Streams :
        /\ hs[h].route = "batch" /\ hs[h].pc = "send" /\ hs[h].idx = 2
        /\ received[s] # <<>>
        /\ received[s][1] = hs[h].readings[1]

(* ------------------------------------------------------------------ *)
(* The insights scheduler under ingest: an analyzer, no ops store, no  *)
(* stream connections.                                                 *)
(* ------------------------------------------------------------------ *)
\* pm2 and pm10 of the readings sent: below both thresholds, above both
SchedPMs == {<<1, 1>>, <<9, 31>>}
SchedHandlers == {1, 2}
\* how many alerts an analyzer call may return
SchedAlerts == {1}

InitSched ==
    /\ config = [engine |-> TRUE, ops |-> FALSE, trace |-> FALSE]
    /\ InitHub
    /\ InitNoOps
    /\ InitEngine

NextSched ==
    \/ \E h \in SchedHandlers :
         \E req \in Fits(SingleRequests(nextSeq, SchedPMs), nextSeq) : Begin(h, req)
    \/ \E h \in SchedHandlers : StoreStep(h)
    \/ \E h \in SchedHandlers : Publish(h)
    \/ \E h \in SchedHandlers : Clock(h)
    \/ \E h \in SchedHandlers : Should(h)
    \/ \E h \in SchedHandlers : RequestEvent(h)
    \/ IntervalTick
    \/ \E g \in Loops : LoopLoad(g)
    \/ \E g \in Loops : LoopAnalyze(g, SchedAlerts)
    \/ \E g \in Loops : LoopSave(g)
    \/ \E g \in Loops : LoopCheck(g)
    \/ Tick

SpecSched == InitSched /\ [][NextSched]_vars

\* the recomputeLoop goroutines that exist, and those inside analyzer.Analyze
ActiveLoops == {g \in Loops : loops[g].pc # "none"}
Analyzing == {g \in Loops : loops[g].pc = "analyze"}

\* C1: whatever the interleaving of the startup, interval and event triggers,
\* at most one call of AlertAnalyzer.Analyze by the scheduler is in flight;
\* indeed at most one recomputeLoop exists, and only while running is set.
C1_OneAnalyzeInFlight ==
    /\ Cardinality(Analyzing) <= 1
    /\ Cardinality(ActiveLoops) <= 1
    /\ ActiveLoops # {} => sched.running

\* an Analyze call in flight during which two further triggers have arrived
C1_Witness == Analyzing # {} /\ stats.arrived >= 2

\* C2: the requests that arrive while a recompute is running are remembered in
\* pending alone (pending is set exactly when K >= 1 have arrived), and when
\* the running recompute has completed, the loop runs exactly one more
\* recompute if K >= 1, clearing pending, and otherwise ends; no second
\* loop is started for them.
C2_Coalescing ==
    /\ [](sched.pending <=> stats.arrived >= 1)
    /\ [](stats.coalesced >= 1 =>
            /\ Cardinality(ActiveLoops) = 1
            /\ \A g \in ActiveLoops : loops[g].trigger = "pending")
    /\ [][\A g \in Loops :
            loops[g].pc = "check" /\ loops'[g] # loops[g] =>
               IF stats.arrived >= 1
               THEN /\ loops'[g].pc = "load"
                    /\ loops'[g].trigger = "pending"
                    /\ ~sched'.pending
                    /\ sched'.running
                    /\ stats'.coalesced = stats.arrived
                    /\ \A o \in Loops \ {g} : loops'[o].pc = "none"
               ELSE /\ loops'[g].pc = "none"
                    /\ ~sched'.running
                    /\ stats'.coalesced = 0]_vars

\* the follow-up recompute is inside Analyze, standing for two requests
C2_Witness ==
    /\ stats.coalesced >= 2
    /\ \E g \in Analyzing : loops[g].trigger = "pending"

(* ------------------------------------------------------------------ *)
(* Device connectivity under ingest: an ops store, no analyzer, no     *)
(* stream connections.                                                 *)
(* ------------------------------------------------------------------ *)
InitDevice ==
    /\ config = [engine |-> FALSE, ops |-> TRUE, trace |-> FALSE]
    /\ InitHub
    /\ InitOps
    /\ InitNoEngine

NextDevice ==
    \/ \E h \in Handlers : \E req \in Fits(GoodRequests(nextSeq, HubPMs), nextSeq) :
            Begin(h, req)
    \/ \E h \in Handlers : StoreStep(h)
    \/ \E h \in Handlers : Arrive(h)
    \/ \E h \in Handlers : Notify(h)
    \/ \E h \in Handlers : Publish(h)
    \/ MonitorTick
    \/ MonitorEval
    \/ \E i \in opsPending : PersistOps(i)
    \/ Tick

SpecDevice == InitDevice /\ [][NextDevice]_vars

\* C10: when an ingest arrival runs onTelemetryReceived, a device_connected
\* event, stamped with the arrival's time, is handed to persistOpsEvent if
\* the device state just before was unknown or disconnected, and no event is
\* handed over if it was connected; the state afterwards is connected.
C10_ConnectedIffNotConnected ==
    [][\A h \in Handlers :
          hs[h].pc = "notify" /\ hs'[h] # hs[h] =>
             /\ dev'.known /\ dev'.connected
             /\ opsEmitted' =
                   IF dev.known /\ dev.connected
                   THEN opsEmitted
                   ELSE Append(opsEmitted,
                               [kind |-> "device_connected", ts |-> hs[h].now])]_vars

\* two arrivals and a disconnection logged by the monitor between them or
\* before them: one arrival found the device not connected and logged the one
\* connection after that disconnection, the other found it connected and
\* logged nothing
C10_Witness ==
    /\ \A h \in Handlers : hs[h].notified
    /\ Cardinality({k \in DOMAIN opsEmitted :
                       opsEmitted[k].kind = "device_connected"}) = 1
    /\ \E i, j \in DOMAIN opsEmitted :
          /\ i < j
          /\ opsEmitted[i].kind = "device_disconnected"
          /\ opsEmitted[j].kind = "device_connected"

(* ------------------------------------------------------------------ *)
(* Ingest in the full configuration: an analyzer, an ops store, a      *)
(* stream connection, and every kind of ingest request, well-formed or *)
(* not.  Requests are served one after the other; the recompute loop   *)
(* and the device monitor are exercised by SpecSched and SpecDevice    *)
(* and do not run here (the startup recompute stays in flight).        *)
(* ------------------------------------------------------------------ *)
MainHandlers == {1}
MainStreams == {1}

Init ==
    /\ config = [engine |-> TRUE, ops |-> TRUE, trace |-> FALSE]
    /\ InitHub
    /\ InitOps
    /\ InitEngine

Next ==
    \/ \E h \in MainHandlers :
         \E req \in Fits(GoodRequests(nextSeq, SchedPMs)
                         \cup BadRequests(nextSeq, <<1, 1>>), nextSeq) :
            Begin(h, req)
    \/ \E h \in MainHandlers : StoreStep(h)
    \/ \E h \in MainHandlers : Arrive(h)
    \/ \E h \in MainHandlers : Notify(h)
    \/ \E h \in MainHandlers : Publish(h)
    \/ \E h \in MainHandlers : Send(h)
    \/ \E h \in MainHandlers : Clock(h)
    \/ \E h \in MainHandlers : Should(h)
    \/ \E h \in MainHandlers : RequestEvent(h)
    \/ \E s \in MainStreams : StreamOpen(s)
    \/ \E s \in MainStreams : StreamRecv(s)
    \/ \E s \in MainStreams : StreamClose(s)
    \/ \E i \in opsPending : PersistOps(i)

Spec == Init /\ [][Next]_vars

\* the state a rejected or failed request must leave alone
sharedVars == <<rows, hubVars, streamVars, opsVars, schedVars>>

\* the handler has done nothing that another part of the program can see
Untouched(rec) ==
    /\ rec.pc = "done"
    /\ ~rec.stored
    /\ ~rec.notified
    /\ rec.published = 0
    /\ ~rec.informed

\* the requests a client may send now
RequestsNow ==
    GoodRequests(nextSeq, SchedPMs) \cup BadRequests(nextSeq, <<1, 1>>)

\* C6: a store call that fails (the rows are as before) makes the handler
\* answer 500 and return at once: no publish, no onTelemetryReceived, no
\* OnReading or OnBatch, in that step or later for that request.
C6_StoreErrorStopsHandler ==
    /\ [](\A h \in MainHandlers : hs[h].resp = 500 => Untouched(hs[h]))
    /\ [][\A h \in MainHandlers :
            hs[h].pc = "store" /\ hs'[h] # hs[h] /\ rows' = rows =>
               /\ hs'[h].resp = 500
               /\ Untouched(hs'[h])
               /\ UNCHANGED sharedVars]_vars

\* a batch has been refused with 500 while a stream client is subscribed and
\* the device counts as connected
C6_Witness ==
    /\ \E h \in MainHandlers : hs[h].resp = 500 /\ hs[h].route = "batch"
    /\ subscribers # {}
    /\ dev.connected

\* C7: a POST whose X-API-Key is not the configured key is answered 401 with
\* its body not decoded, and the request changes neither the rows, the hub
\* and its channels, the device state and ops events, nor the scheduler.
C7_UnauthorizedTouchesNothing ==
    /\ [](\A q \in RequestsNow :
            q.method = "POST" /\ q.key # ingestAPIKey =>
               Prelude(q) = [status |-> 401, readings |-> <<>>, decoded |-> FALSE])
    /\ [](\A h \in MainHandlers :
            hs[h].resp = 401 => Untouched(hs[h]) /\ ~hs[h].decoded)
    /\ [][\A h \in MainHandlers :
            requests' # requests /\ hs'[h].resp = 401 => UNCHANGED sharedVars]_vars

\* a request has been answered 401 when rows exist, a stream client is
\* subscribed and the device counts as connected
C7_Witness ==
    /\ \E h \in MainHandlers : hs[h].resp = 401
    /\ rows # <<>>
    /\ subscribers # {}
    /\ dev.connected

\* the batch requests a client may send now that are empty, oversized or hold
\* an invalid reading
RefusedBatches ==
    {q \in RequestsNow :
        /\ q.route = "batch" /\ q.method = "POST" /\ q.key = ingestAPIKey
        /\ q.body.kind = "json"
        /\ \/ q.body.n = 0
           \/ q.body.n > maxBatchSize
           \/ \E i \in DOMAIN q.body.items : ~decodeReadingPayload(q.body.items[i]).ok}

\* C8: an empty or oversized batch and a batch with an invalid reading are
\* answered 400 with nothing decoded to store; a batch handler that answers
\* 400 or 500 has stored and published nothing; the store call of a batch
\* appends all its N readings or none, in which case the answer is 500; and
\* rows change in no other way.
C8_BatchAllOrNothing ==
    /\ [](\A q \in RefusedBatches :
            Prelude(q).status = 400 /\ Prelude(q).readings = <<>>)
    /\ [](\A h \in MainHandlers :
            hs[h].route = "batch" /\ hs[h].resp \in {400, 500} => Untouched(hs[h]))
    /\ [](\A h \in MainHandlers :
            hs[h].route = "batch" /\ (hs[h].resp = 202 \/ hs[h].published > 0) =>
               hs[h].stored)
    /\ [][\A h \in MainHandlers :
            hs[h].route = "batch" /\ hs[h].pc = "store" /\ hs'[h] # hs[h] =>
               \/ rows' = rows \o hs[h].readings /\ hs'[h].stored
               \/ rows' = rows /\ hs'[h].resp = 500 /\ Untouched(hs'[h])]_vars
    /\ [][rows' # rows => \E h \in MainHandlers : hs[h].pc = "store"]_vars

\* one batch of two readings has been committed whole and answered 202, and
\* the next batch has been refused
C8_Witness ==
    /\ Len(rows) = 2
    /\ \E h \in MainHandlers :
          hs[h].route = "batch" /\ hs[h].resp \in {400, 500}

(* ------------------------------------------------------------------ *)
(* The device monitor over several ticks: an ops store, no analyzer,   *)
(* no stream connections, one ingest handler, and a run long enough    *)
(* for the monitor to evaluate more than once.                         *)
(* ------------------------------------------------------------------ *)

InitMonitor ==
    /\ config = [engine |-> FALSE, ops |-> TRUE, trace |-> FALSE]
    /\ InitHub
    /\ InitOps
    /\ InitNoEngine

NextMonitor ==
    \/ \E h \in MainHandlers :
          \E req \in Fits(SingleRequests(nextSeq, HubPMs), nextSeq) : Begin(h, req)
    \/ \E h \in MainHandlers : StoreStep(h)
    \/ \E h \in MainHandlers : Arrive(h)
    \/ \E h \in MainHandlers : Notify(h)
    \/ \E h \in MainHandlers : Publish(h)
    \/ MonitorTick
    \/ MonitorEval
    \/ \E i \in opsPending : PersistOps(i)
    \/ TickUntil(LongRun)

SpecMonitor == InitMonitor /\ [][NextMonitor]_vars

\* the positions of the events of a kind among those handed to persistOpsEvent
EmittedOf(kind) == {i \in DOMAIN opsEmitted : opsEmitted[i].kind = kind}

\* C11: an evaluation by the monitor of a tick sent at time t hands one
\* device_disconnected event, stamped t, to persistOpsEvent and marks the
\* device disconnected if the device was connected and last seen at least
\* DeviceOfflineTimeout before t, and hands over nothing otherwise; so of any
\* two device_disconnected events the later follows a device_connected
\* event, that is an ingest, that came after the earlier.
C11_OneDisconnectPerSilence ==
    /\ [](\A i, j \in EmittedOf("device_disconnected") :
            i < j => \E k \in EmittedOf("device_connected") : i < k /\ k < j)
    /\ [][mon.pc = "eval" /\ mon'.pc = "wait" =>
            IF dev.known /\ dev.connected
               /\ mon.at - dev.seenAt >= DeviceOfflineTimeout
            THEN /\ opsEmitted' = Append(opsEmitted, [kind |-> "device_disconnected",
                                                      ts |-> mon.at])
                 /\ ~dev'.connected
            ELSE opsEmitted' = opsEmitted]_vars

\* no ingest at all: the tick at time 2 found the device silent for the
\* timeout and logged the disconnection, the tick at time 3 has been evaluated
\* as well, and there is the one device_disconnected event
C11_Witness ==
    /\ requests = 0
    /\ mon.pc = "wait" /\ mon.at = 1 + 2 * MonitorInterval
    /\ Cardinality(EmittedOf("device_disconnected")) = 1
    /\ \E i \in EmittedOf("device_disconnected") :
          opsEmitted[i].ts = 1 + MonitorInterval

(* ------------------------------------------------------------------ *)
(* The retention worker of main under ingest: no analyzer, no ops      *)
(* store, no stream connections, one ingest handler.                   *)
(* ------------------------------------------------------------------ *)
\* PostgresStore.DeleteOlderThan, one statement: the table afterwards, the
\* rows affected and whether an error is returned.  The statement fails
\* without effect, or its deadline passes after it has taken effect.
DeleteOlderThan(table, cutoff, limit) ==
    LET lim == IF limit <= 0 THEN DefaultDeleteLimit ELSE limit
        \* WHERE timestamp < cutoff ORDER BY timestamp LIMIT lim: the sets of
        \* rows the subquery can select; equal timestamps come in any order
        E == {i \in DOMAIN table : table[i].ts < cutoff}
        n == IF Cardinality(E) < lim THEN Cardinality(E) ELSE lim
        Expired == {D \in SUBSET E :
                       /\ Cardinality(D) = n
                       /\ \A i \in D, j \in E \ D : table[i].ts <= table[j].ts}
        \* the rows at the positions outside D, in their order
        Without(D) ==
            LET F[k \in 0..Len(table)] ==
                    IF k = 0 THEN <<>>
                    ELSE IF k \in D THEN F[k - 1]
                    ELSE Append(F[k - 1], table[k])
            IN F[Len(table)]
    IN {[rows |-> Without(D), deleted |-> Cardinality(D), err |-> FALSE] : D \in Expired}
       \cup {[rows |-> table, deleted |-> 0, err |-> TRUE]}
       \cup {[rows |-> Without(D), deleted |-> 0, err |-> TRUE] : D \in Expired}

\* cleanup: time.Now() less the retention age is the cutoff of the run
RetentionStart ==
    /\ ret.pc = "start"
    /\ ret' = [ret EXCEPT !.pc = "delete", !.cutoff = now - RetentionAge,
                          !.deleted = 0]
    /\ UNCHANGED <<constVars, sideVars, now, rows, hubVars, streamVars, handlerVars, pubVars,
                   opsVars, mon, schedVars, ticker>>

\* the worker after a cleanup has returned: the ticker is made after the
\* first cleanup
Rested(w, result) ==
    [w EXCEPT !.pc = "wait", !.last = result,
              !.next = IF w.next = 0 THEN now + RetentionInterval ELSE w.next]

\* a cleanup that returns after its first DeleteOlderThan
RetentionDelete_OneBatch ==
    /\ ret.pc = "delete"
    /\ \E out \in DeleteOlderThan(rows, ret.cutoff, RetentionBatchSize) :
          /\ rows' = out.rows
          /\ ret' = IF out.err THEN Rested(ret, "failed") ELSE Rested(ret, "ok")
    /\ UNCHANGED <<constVars, sideVars, now, hubVars, streamVars, handlerVars, pubVars,
                   opsVars, mon, schedVars, ticker>>

\* cleanup, one round of its loop: DeleteOlderThan; an error ends the run, no
\* row deleted ends it, otherwise the loop goes round
RetentionDelete ==
    /\ ret.pc = "delete"
    /\ \E out \in DeleteOlderThan(rows, ret.cutoff, RetentionBatchSize) :
          /\ rows' = out.rows
          /\ ret' = IF out.err THEN Rested(ret, "failed")
                    ELSE IF out.deleted = 0 THEN Rested(ret, "ok")
                    ELSE [ret EXCEPT !.deleted = @ + out.deleted]
    /\ UNCHANGED <<constVars, sideVars, now, hubVars, streamVars, handlerVars, pubVars,
                   opsVars, mon, schedVars, ticker>>

\* for range ticker.C: the worker receives the first tick not yet received;
\* ticks that found the channel full are lost
RetentionWake ==
    /\ ret.pc = "wait"
    /\ now >= ret.next
    /\ ret' = [ret EXCEPT !.pc = "start",
                          !.next = ret.next + RetentionInterval
                                     * ((now - ret.next) \div RetentionInterval + 1)]
    /\ UNCHANGED <<constVars, sideVars, now, rows, hubVars, streamVars, handlerVars, pubVars,
                   opsVars, mon, schedVars, ticker>>

\* sensor_readings as earlier runs left it (timestamp, pm2, pm10 of each
\* row), not in the order of the timestamps
ReadingHistories ==
    {<<>>,
     <<[ts |-> 2, pm2 |-> 1, pm10 |-> 1], [ts |-> 1, pm2 |-> 1, pm10 |-> 1],
       [ts |-> 1, pm2 |-> 9, pm10 |-> 1]>>}

InitRetention ==
    /\ config = [engine |-> FALSE, ops |-> FALSE, trace |-> FALSE]
    /\ \E table \in ReadingHistories : InitIngest(table)
    /\ ret = [RetentionOff EXCEPT !.pc = "start"]
    /\ InitNoOps
    /\ InitNoEngine

NextRetention ==
    \/ \E h \in MainHandlers :
          \E req \in Fits(SingleRequests(nextSeq, HubPMs), nextSeq) : Begin(h, req)
    \/ \E h \in MainHandlers : StoreStep(h)
    \/ \E h \in MainHandlers : Publish(h)
    \/ RetentionStart
    \/ RetentionDelete
    \/ RetentionWake
    \/ TickUntil(LongRun)

SpecRetention == InitRetention /\ [][NextRetention]_vars

\* C12: every DeleteOlderThan of a retention run with cutoff C leaves the rows
\* with timestamp >= C as they were, and when the run ends without a store
\* error (a DeleteOlderThan answered 0 rows) no row with timestamp < C is in
\* the table.
C12_RetentionDrains ==
    [][LET C == ret.cutoff
           Older(table) == SelectSeq(table, LAMBDA r : r.ts < C)
           NotOlder(table) == SelectSeq(table, LAMBDA r : r.ts >= C)
       IN ret.pc = "delete" /\ ret' # ret =>
             /\ NotOlder(rows') = NotOlder(rows)
             /\ (ret'.pc = "wait" /\ ret'.last = "ok") => Older(rows') = <<>>]_vars

\* a run with cutoff 2 has ended without an error, after the two rows with
\* timestamp 1 of the three that the run found were deleted in two rounds of
\* the loop; the row with timestamp 2 is there
C12_Witness ==
    /\ ret.pc = "wait" /\ ret.last = "ok" /\ ret.cutoff = 2 /\ ret.deleted = 2
    /\ requests = 0
    /\ rows = <<[ts |-> 2, pm2 |-> 1, pm10 |-> 1]>>

(* ------------------------------------------------------------------ *)
(* GET /api/insights.  The handler reads the scheduler's snapshot      *)
(* under its read lock and changes nothing, so its response is a       *)
(* function of the request and of the state it is served in.           *)
(* ------------------------------------------------------------------ *)
\* strconv.Atoi: an optional sign, then decimal digits
Atoi(raw) ==
    LET DigitChars == <<"0", "1", "2", "3", "4", "5", "6", "7", "8", "9">>
        DigitValue(c) == (CHOOSE i \in DOMAIN DigitChars : DigitChars[i] = c) - 1
        signed == raw # <<>> /\ raw[1] \in {"+", "-"}
        digits == IF signed THEN Tail(raw) ELSE raw
        Value[n \in 0..Len(digits)] ==
            IF n = 0 THEN 0 ELSE 10 * Value[n - 1] + DigitValue(digits[n])
    IN IF digits = <<>> \/ \E i \in DOMAIN digits : digits[i] \notin Elems(DigitChars)
       THEN DecodeErr("invalid syntax")
       ELSE DecodeOk(IF signed /\ raw[1] = "-" THEN -Value[Len(digits)]
                     ELSE Value[Len(digits)])

\* InsightsScheduler.Snapshot that hands out every alert it holds
Snapshot_Untrimmed(state, limit) ==
    IF ~state.hasSnapshot THEN [ok |-> FALSE, value |-> NoSnapshot]
    ELSE [ok |-> TRUE, value |-> state.snapshot]

\* InsightsScheduler.Snapshot without its test of hasSnapshot
Snapshot_NoWarmup(state, limit) ==
    [ok |-> TRUE,
     value |-> IF limit > 0 /\ state.snapshot.insights > limit
               THEN [state.snapshot EXCEPT !.insights = limit]
               ELSE state.snapshot]

\* InsightsScheduler.Snapshot: a copy of the snapshot with the first limit
\* alerts
Snapshot(state, limit) ==
    IF ~state.hasSnapshot THEN [ok |-> FALSE, value |-> NoSnapshot]
    ELSE [ok |-> TRUE,
          value |-> IF limit > 0 /\ state.snapshot.insights > limit
                    THEN [state.snapshot EXCEPT !.insights = limit]
                    ELSE state.snapshot]

\* API.handleInsights: the status and, with 200, the snapshot written
handleInsights(req) ==
    IF req.method # "GET" THEN [status |-> 405, body |-> NoSnapshot]
    ELSE IF ~config.engine THEN [status |-> 503, body |-> NoSnapshot]
    ELSE LET parsed == Atoi(req.limit)
         IN IF req.limit # <<>>
               /\ (~parsed.ok \/ parsed.value < 1 \/ parsed.value > maxInsightsLimit)
            THEN [status |-> 400, body |-> NoSnapshot]
            ELSE LET alertLimit == IF req.limit = <<>> THEN maxInsightsLimit
                                   ELSE parsed.value
                     snap == Snapshot(sched, alertLimit)
                 IN IF ~snap.ok THEN [status |-> 503, body |-> NoSnapshot]
                    ELSE [status |-> 200, body |-> snap.value]

\* the value of the query parameter limit: absent, in range, out of range,
\* not a number
RawLimits ==
    {<<>>, <<"1">>, <<"3">>, <<"0", "2">>, <<"0">>, <<"4">>, <<"-", "1">>, <<"x">>}

InsightsRequests ==
    [method : {"GET"}, limit : RawLimits] \cup {[method |-> "POST", limit |-> <<>>]}

\* what every request would be answered now
InsightsResponses == [q \in InsightsRequests |-> handleInsights(q)]

\* C13: while a recompute is loading readings or waiting for the analyzer,
\* no step but its own successful Analyze changes the snapshot in memory, the
\* persisted snapshot or the answer to any GET /api/insights request; so a
\* recompute that fails at either call ends with all three as they were when
\* it began.
C13_FailedRecomputeLeavesSnapshot ==
    [][(/\ \E g \in Loops : loops[g].pc \in {"load", "analyze"}
        /\ ~\E g \in Loops : loops[g].pc = "analyze" /\ loops'[g].pc = "save")
       => /\ sched'.snapshot = sched.snapshot
          /\ sched'.hasSnapshot = sched.hasSnapshot
          /\ savedSnapshot' = savedSnapshot
          /\ InsightsResponses' = InsightsResponses]_vars

\* a recompute requested by a reading has loaded readings and its Analyze has
\* failed: the snapshot in memory is the one loaded at startup and the
\* persisted one is there
C13_Witness ==
    \E g \in Loops :
       /\ loops[g].pc = "check" /\ loops[g].trigger = "event"
       /\ loops[g].samples > 0
       /\ sched.hasSnapshot /\ sched.snapshot.trigger = "interval"
       /\ savedSnapshot.found /\ savedSnapshot.value = sched.snapshot
       /\ handleInsights([method |-> "GET", limit |-> <<>>]).status = 200

\* C14: in the full configuration, with the startup recompute's analyzer call
\* in flight and never returning, persistOpsEvent goroutines that have not
\* run and a stream client that does not read, a handler whose store write
\* has succeeded has either answered 202 or can take its next step at once.
C14_IngestNeverWaits ==
    \A h \in MainHandlers :
       hs[h].stored =>
          \/ hs[h].pc = "done" /\ hs[h].resp = 202
          \/ ENABLED (\/ Arrive(h) \/ Notify(h) \/ Publish(h) \/ Send(h)
                      \/ Clock(h) \/ Should(h) \/ RequestEvent(h))

(* ------------------------------------------------------------------ *)
(* The stream hub and the holders of its unsubscribe closures: no      *)
(* analyzer, no ops store, one ingest handler, and closures that are   *)
(* called again after handleStream's deferred call.                    *)
(* ------------------------------------------------------------------ *)
\* a holder of the closure that subscribe returned calls it once more
UnsubscribeAgain(s) ==
    /\ spc[s] = "closed"
    /\ unsub[s].calls < MaxUnsubscribeCalls
    /\ unsubscribe(s)
    /\ UNCHANGED <<constVars, sideVars, ret, now, rows, chanBuf, streamVars, handlerVars,
                   pubVars, opsVars, mon, schedVars, ticker>>

InitClosures ==
    /\ config = [engine |-> FALSE, ops |-> FALSE, trace |-> FALSE]
    /\ InitHub
    /\ InitNoOps
    /\ InitNoEngine

NextClosures ==
    \/ \E h \in MainHandlers :
          \E req \in Fits(SingleRequests(nextSeq, HubPMs), nextSeq) : Begin(h, req)
    \/ \E h \in MainHandlers : StoreStep(h)
    \/ \E h \in MainHandlers : Publish(h)
    \/ \E h \in MainHandlers : Send(h)
    \/ \E s \in Streams : StreamOpen(s)
    \/ \E s \in Streams : StreamRecv(s)
    \/ \E s \in Streams : StreamClose(s)
    \/ \E s \in Streams : UnsubscribeAgain(s)

SpecClosures == InitClosures /\ [][NextClosures]_vars

\* C15: the first call of a subscriber's unsubscribe closure finds the
\* channel registered, removes it from the hub and closes it; every later
\* call of that closure leaves the hub, the channels and everything else as
\* they are; so close has run exactly once however often the closure was
\* called.
C15_UnsubscribeIdempotent ==
    /\ [](\A s \in Streams :
            unsub[s].calls >= 1 =>
               s \notin subscribers /\ chanClosed[s] /\ unsub[s].closes = 1)
    /\ [][\A s \in Streams :
             unsub'[s].calls > unsub[s].calls =>
                IF unsub[s].calls = 0
                THEN /\ s \in subscribers
                     /\ subscribers' = subscribers \ {s}
                     /\ chanClosed' = [chanClosed EXCEPT ![s] = TRUE]
                     /\ unsub'[s].closes = 1
                ELSE /\ unsub'[s].closes = unsub[s].closes
                     /\ UNCHANGED <<constVars, sideVars, ret, now, rows, subscribers, chanBuf,
                                    chanClosed, streamVars, handlerVars, pubVars,
                                    opsVars, mon, schedVars, ticker>>]_vars

\* one closure has been called as often as the run allows, its channel was
\* closed once, and the other connection is still subscribed
C15_Witness ==
    \E s, t \in Streams :
       /\ unsub[s].calls = MaxUnsubscribeCalls /\ unsub[s].closes = 1
       /\ t \in subscribers /\ ~chanClosed[t]

(* ------------------------------------------------------------------ *)
(* The insights scheduler on its own: an analyzer that answers with up *)
(* to its configured maximum of alerts, no ingest, no ops store.       *)
(* ------------------------------------------------------------------ *)
\* how many alerts Analyze may return: none, fewer than maxInsightsLimit,
\* main's default for OPENAI_INSIGHTS_MAX, and more
InsightAlerts == {0, 2, 4, 5}

InitInsights ==
    /\ config = [engine |-> TRUE, ops |-> FALSE, trace |-> FALSE]
    /\ InitHub
    /\ InitNoOps
    /\ InitEngine

NextInsights ==
    \/ \E g \in Loops : LoopLoad(g)
    \/ \E g \in Loops : LoopAnalyze(g, InsightAlerts)
    \/ \E g \in Loops : LoopSave(g)
    \/ \E g \in Loops : LoopCheck(g)
    \/ IntervalTick
    \/ TickUntil(LongRun)

SpecInsights == InitInsights /\ [][NextInsights]_vars

\* C16: whatever the scheduler's snapshot holds, the insights of the
\* response to a GET /api/insights request, with limit absent, valid or
\* invalid, are at most maxInsightsLimit = 3.
C16_ResponseWithinLimit ==
    \A q \in InsightsRequests : handleInsights(q).body.insights <= maxInsightsLimit

\* the snapshot holds more than three alerts and requests are answered 200
\* with three of them by default and with one for limit=1
C16_Witness ==
    /\ sched.hasSnapshot /\ sched.snapshot.insights > maxInsightsLimit
    /\ handleInsights([method |-> "GET", limit |-> <<>>]).status = 200
    /\ handleInsights([method |-> "GET", limit |-> <<>>]).body.insights = 3
    /\ handleInsights([method |-> "GET", limit |-> <<"1">>]).body.insights = 1

\* C17: neither the snapshot in memory nor the persisted snapshot holds more
\* than 3 alerts.
C17_SnapshotWithinCap ==
    /\ sched.snapshot.insights <= maxInsightsLimit
    /\ savedSnapshot.value.insights <= maxInsightsLimit

(* ------------------------------------------------------------------ *)
(* Event triggers: an analyzer, no ops store, no stream connections,   *)
(* two ingest handlers and readings whose PM2 and PM10 rise, fall and  *)
(* stay.  The startup recompute stays in flight, so that every         *)
(* accepted trigger is a request that finds the scheduler running.     *)
(* ------------------------------------------------------------------ *)
\* PM2 and PM10 of the readings sent: below both thresholds, so that no
\* threshold is crossed; a step of 4 in PM2 and of 10 in PM10
TriggerPMs == {<<1, 1>>, <<5, 1>>, <<1, 11>>}

InitTrigger ==
    /\ config = [engine |-> TRUE, ops |-> FALSE, trace |-> FALSE]
    /\ InitHub
    /\ InitNoOps
    /\ InitEngine

NextTrigger ==
    \/ \E h \in SchedHandlers :
          \E req \in FitsIn(SingleRequests(nextSeq, TriggerPMs), nextSeq,
                             TriggerReadings) :
             BeginWithin(h, req, TriggerReadings)
    \/ \E h \in SchedHandlers : StoreStep(h)
    \/ \E h \in SchedHandlers : Publish(h)
    \/ \E h \in SchedHandlers : Clock(h)
    \/ \E h \in SchedHandlers : Should(h)
    \/ \E h \in SchedHandlers : RequestEvent(h)
    \/ Tick

SpecTrigger == InitTrigger /\ [][NextTrigger]_vars

\* the step of handler h in which shouldTriggerFromReading decides about a
\* reading that has a predecessor
Decides(h) == hs[h].pc = "should" /\ hs'[h] # hs[h] /\ sched.lastReading # <<>>

\* whether the reading handler h holds meets a trigger condition against the
\* last reading seen
MeetsCondition(h) ==
    LET reading == hs[h].readings[hs[h].idx]
        previous == sched.lastReading[1]
        d2 == reading.pm2 - previous.pm2
        d10 == reading.pm10 - previous.pm10
    IN \/ previous.pm2 < PM2Threshold /\ reading.pm2 >= PM2Threshold
       \/ previous.pm10 < PM10Threshold /\ reading.pm10 >= PM10Threshold
       \/ d2 >= PM2DeltaTrigger \/ -d2 >= PM2DeltaTrigger
       \/ d10 >= PM10DeltaTrigger \/ -d10 >= PM10DeltaTrigger

\* C18: a reading that meets a trigger condition and whose arrival time (the
\* time read at the top of shouldTriggerFromReading) is less than
\* EventMinInterval after the arrival time of the last accepted event trigger
\* is not accepted: no recompute is requested for it and the time of the
\* last accepted trigger stays; a reading that is accepted arrived at least
\* EventMinInterval after the last accepted one and becomes the last.
C18_Throttle ==
    [][\A h \in SchedHandlers :
          Decides(h) =>
             /\ (/\ MeetsCondition(h)
                 /\ sched.lastEventTrigger # 0
                 /\ hs[h].now - sched.lastEventTrigger < EventMinInterval)
                => /\ hs'[h].pc # "request"
                   /\ sched'.lastEventTrigger = sched.lastEventTrigger
                   /\ UNCHANGED <<loops, stats>> /\ sched'.pending = sched.pending
             /\ hs'[h].pc = "request"
                => /\ \/ sched.lastEventTrigger = 0
                      \/ hs[h].now - sched.lastEventTrigger >= EventMinInterval
                   /\ sched'.lastEventTrigger = hs[h].now]_vars

\* three readings, each a jump away from the other two, were taken in at
\* time 1: one seeded the last reading, one was accepted as an event trigger
\* and requested a recompute, and the one decided last was throttled
C18_Witness ==
    /\ nextSeq = TriggerReadings + 1
    /\ \A h \in SchedHandlers : hs[h].pc = "done" /\ hs[h].resp = 202
    /\ sched.lastEventTrigger = 1 /\ now = 1
    /\ stats.arrived = 1
    /\ Len(rows) = 3
    /\ <<rows[1].pm2, rows[1].pm10>> = <<1, 1>>
    /\ <<rows[2].pm2, rows[2].pm10>> = <<5, 1>>
    /\ <<rows[3].pm2, rows[3].pm10>> = <<1, 11>>
    /\ sched.lastReading = <<rows[3]>>

C20_FallDoesNotTrigger ==
    [][\A h \in SchedHandlers :
          LET reading == hs[h].readings[hs[h].idx]
              previous == sched.lastReading[1]
              d10 == reading.pm10 - previous.pm10
          IN (/\ Decides(h)
              /\ previous.pm2 - reading.pm2 >= PM2DeltaTrigger
              /\ ~(previous.pm2 < PM2Threshold /\ reading.pm2 >= PM2Threshold)
              /\ ~(previous.pm10 < PM10Threshold /\ reading.pm10 >= PM10Threshold)
              /\ d10 < PM10DeltaTrigger /\ -d10 < PM10DeltaTrigger)
             => hs'[h].pc # "request"]_vars

(* ------------------------------------------------------------------ *)
(* The scheduler's first reading, its warm-up and its flags, under     *)
(* SpecSched.                                                          *)
(* ------------------------------------------------------------------ *)
\* C21: the reading that shouldTriggerFromReading is given while the
\* scheduler has no last reading becomes the last reading and nothing else
\* happens: it is not accepted as an event trigger, no recompute is requested
\* for it and the time of the last event trigger stays unset, whatever its
\* PM2 and PM10.
C21_FirstReadingSeeds ==
    [][\A h \in SchedHandlers :
          (hs[h].pc = "should" /\ hs'[h] # hs[h] /\ sched.lastReading = <<>>)
          => /\ hs'[h].pc = "done" /\ hs'[h].resp = 202
             /\ sched' = [sched EXCEPT !.lastReading = <<hs[h].readings[hs[h].idx]>>]
             /\ sched'.lastEventTrigger = 0
             /\ UNCHANGED <<loops, stats>>]_vars

\* the one reading taken in so far has PM2 and PM10 above both thresholds;
\* it seeded the last reading and its request was answered without an event
\* trigger
C21_Witness ==
    /\ requests = 1
    /\ \E h \in SchedHandlers : hs[h].pc = "done" /\ hs[h].resp = 202 /\ hs[h].informed
    /\ Len(sched.lastReading) = 1
    /\ sched.lastReading[1].pm2 >= PM2Threshold
    /\ sched.lastReading[1].pm10 >= PM10Threshold
    /\ sched.lastEventTrigger = 0

(* ------------------------------------------------------------------ *)
(* Warm-up of GET /api/insights, under SpecInsights.                   *)
(* ------------------------------------------------------------------ *)
\* C22: a GET /api/insights request with no limit or a valid one is
\* answered 200 or 503.  At start it is answered 200 only with the snapshot
\* that was in storage, and 503 when storage held none; afterwards the answer
\* turns from 503 to 200 exactly at the step in which a recompute's Analyze
\* succeeds, and from 200 it never turns back, whatever fails later.
C22_WarmupEndsOnce ==
    /\ \A q \in InsightsRequests :
          handleInsights(q).status \in {200, 503} =>
             /\ ~savedSnapshot.found => handleInsights(q).status = 503
             /\ handleInsights(q).status = 200
                   => /\ handleInsights(q).body.at = savedSnapshot.value.at
                      /\ handleInsights(q).body.trigger = savedSnapshot.value.trigger
    /\ [][\A q \in InsightsRequests :
             LET before == handleInsights(q).status
                 after == handleInsights(q)'.status
                 succeeded == \E g \in Loops : loops[g].pc = "analyze" /\ loops'[g].pc = "save"
             IN before \in {200, 503} =>
                   /\ after \in {200, 503}
                   /\ before = 200 => after = 200
                   /\ (before = 503 /\ after = 200) => succeeded
                   /\ succeeded => after = 200]_vars

\* storage held no snapshot; the startup recompute installed one, which was
\* not persisted, and a later recompute has ended without replacing it: the
\* request is still answered 200 with the startup snapshot
C22_Witness ==
    /\ ~savedSnapshot.found
    /\ sched.hasSnapshot /\ sched.snapshot.trigger = "startup"
    /\ \E g \in Loops : loops[g].pc = "check" /\ loops[g].trigger = "pending"
    /\ now > sched.snapshot.at
    /\ handleInsights([method |-> "GET", limit |-> <<>>]).status = 200

(* ------------------------------------------------------------------ *)
(* Stopping: an analyzer, an ops store and the retention worker, no    *)
(* requests.  The startup recompute stays in flight, so the refresh    *)
(* ticker's requests set pending.                                      *)
(* ------------------------------------------------------------------ *)
InitShutdown ==
    /\ config = [engine |-> TRUE, ops |-> TRUE, trace |-> FALSE]
    /\ InitIngest(<<>>)
    /\ ret = [RetentionOff EXCEPT !.pc = "start"]
    /\ InitOps
    /\ InitEngine

NextShutdown ==
    \/ Shutdown
    \/ IntervalTick
    \/ MonitorTick
    \/ MonitorEval
    \/ \E i \in opsPending : PersistOps(i)
    \/ RetentionStart
    \/ RetentionDelete
    \/ RetentionWake
    \/ TickUntil(LongRun)

SpecShutdown == InitShutdown /\ [][NextShutdown]_vars

\* C23: once the process has been asked to stop, no background loop takes
\* from its ticker a tick that was sent later than that: the refresh ticker's
\* goroutine makes no further interval request, the device monitor starts no
\* further evaluation and the retention worker starts no further cleanup.
C23_LoopsStopOnShutdown ==
    [][shutdown # 0 =>
          /\ ticker > shutdown => ticker' = ticker
          /\ (mon.pc = "wait" /\ mon.next > shutdown) => mon' = mon
          /\ (ret.pc = "wait" /\ ret.next > shutdown) => ret' = ret]_vars

(* ------------------------------------------------------------------ *)
(* The request limiter under calls for a few keys at the times of the  *)
(* clock; nothing else runs.                                           *)
(* ------------------------------------------------------------------ *)
\* the keys Allow is called with: a client, the empty key and the key that
\* stands for it
LimiterKeys == {"a", "", "unknown"}

InitLimiter ==
    /\ config = [engine |-> FALSE, ops |-> FALSE, trace |-> FALSE]
    /\ InitHub
    /\ InitNoOps
    /\ InitNoEngine

NextLimiter ==
    \/ \E key \in LimiterKeys : LimiterAllow(key)
    \/ TickUntil(LongRun)

SpecLimiter == InitLimiter /\ [][NextLimiter]_vars

\* C24: for every key and every span of one window length, the calls of
\* Allow with that key at times within the span that were answered true are
\* at most limit.
C24_AtMostLimitPerSpan ==
    \A key \in LimiterKeys : \A t \in 1..LongRun :
       Cardinality({i \in DOMAIN limiter.calls :
                       /\ limiter.calls[i].key = key
                       /\ limiter.calls[i].ok
                       /\ limiter.calls[i].at \in t..(t + limiter.window - 1)})
          <= limiter.limit

(* ------------------------------------------------------------------ *)
(* The client identity of requests with and without forwarding         *)
(* headers, with and without a port in RemoteAddr.                     *)
(* ------------------------------------------------------------------ *)
\* the requests: RemoteAddr is host and port, the same with blanks around,
\* another host, no port, no host, two colons; X-Forwarded-For is absent, one
\* hop, two hops, an empty first hop, blank; X-Real-IP is absent, an address,
\* blank
IdentityRequests ==
    LET RemoteAddrs == {<<"a", ":", "5">>, <<" ", "a", ":", "5", " ">>, <<"b", ":", "5">>,
                        <<"a">>, <<":", "5">>, <<"a", ":", "b", ":", "5">>}
        ForwardedFors == {<<>>, <<"c">>, <<" ", "c", ",", " ", "d">>, <<",", "d">>, <<" ">>}
        RealIPs == {<<>>, <<"e", " ">>, <<" ">>}
    IN [remote : RemoteAddrs, xff : ForwardedFors, xri : RealIPs]

InitIdentity ==
    /\ config = [engine |-> FALSE, ops |-> FALSE, trace |-> FALSE]
    /\ InitHub
    /\ InitNoOps
    /\ InitNoEngine

NextIdentity ==
    \E request \in IdentityRequests : \E trust \in BOOLEAN : Identify(request, trust)

SpecIdentity == InitIdentity /\ [][NextIdentity]_vars

\* C25: the identity taken without trust in the proxy headers is the peer
\* address, RemoteAddr without its port, and is the same for every
\* X-Forwarded-For and X-Real-IP the request could carry instead; with trust
\* it is the first hop of X-Forwarded-For if that is not blank, else
\* X-Real-IP if that is not blank, else the peer address.
C25_IdentityByTrust ==
    client.called =>
       LET remote == TrimSpace(client.request.remote)
           Hosts == {h \in {SubSeq(remote, 1, n) : n \in 1..Len(remote)} :
                        /\ ":" \notin Elems(h)
                        /\ Len(h) < Len(remote) /\ remote[Len(h) + 1] = ":"
                        /\ ":" \notin Elems(SubSeq(remote, Len(h) + 2, Len(remote)))}
           peer == IF Hosts = {} THEN remote ELSE CHOOSE h \in Hosts : TRUE
           xff == TrimSpace(client.request.xff)
           Hops == {h \in {SubSeq(xff, 1, n) : n \in 0..Len(xff)} :
                       /\ "," \notin Elems(h)
                       /\ Len(h) = Len(xff) \/ xff[Len(h) + 1] = ","}
           hop == TrimSpace(CHOOSE h \in Hops : TRUE)
           xri == TrimSpace(client.request.xri)
       IN IF client.trust
          THEN client.identity = (IF hop # <<>> THEN hop
                                  ELSE IF xri # <<>> THEN xri ELSE peer)
          ELSE /\ client.identity = peer
               /\ \A other \in IdentityRequests :
                     other.remote = client.request.remote
                        => clientIdentity(other, FALSE) = client.identity

\* the request of TestClientIdentityIgnoresForwardedHeadersByDefault: both
\* headers set, no trust, and the identity is the host of RemoteAddr
C25_Witness ==
    /\ client.called /\ ~client.trust
    /\ client.request = [remote |-> <<"a", ":", "5">>, xff |-> <<"c">>,
                         xri |-> <<"e", " ">>]
    /\ client.identity = <<"a">>

(* ------------------------------------------------------------------ *)
(* Latest over the tables of SpecRetention: rows of earlier runs, rows *)
(* inserted by requests, rows deleted by the retention worker.         *)
(* ------------------------------------------------------------------ *)
\* C26: for every limit from 1 to past the number of rows, Latest returns
\* min(limit, number of rows) readings, and they are the rows inserted last,
\* in the order of their insertion.
C26_LatestOldestFirst ==
    \A limit \in 1..(Len(rows) + 1) :
       LET out == Latest(rows, limit)
           n == IF limit < Len(rows) THEN limit ELSE Len(rows)
       IN /\ Len(out) = n
          /\ \A i \in 1..n : out[i] = rows[Len(rows) - n + i]

\* a cleanup has ended and the table holds three rows; Latest(2) is the two
\* rows inserted last, the one inserted earlier first
C26_Witness ==
    /\ Len(rows) = 3
    /\ rows[2].ts < rows[3].ts
    /\ ret.last = "ok"
    /\ Latest(rows, 2) = <<rows[2], rows[3]>>
    /\ rows[1] # rows[2] /\ rows[2] # rows[3]

(* ------------------------------------------------------------------ *)
(* publish against unsubscribe, under SpecStream.                      *)
(* ------------------------------------------------------------------ *)
\* C27: no iteration of publish's send loop finds the channel it sends on
\* closed, and no ingest handler ends in the panic of such a send.
C27_NoSendOnClosed ==
    [][\A h \in Handlers :
          (hs[h].pc = "send" /\ hs'[h] # hs[h]) =>
             /\ ~chanClosed[Head(hs[h].subs)]
             /\ hs'[h].pc # "panicked"]_vars

(* ------------------------------------------------------------------ *)
(* The scheduler's loop under fair scheduling: a recomputeLoop         *)
(* goroutine that can take a step takes it, which is to say that the   *)
(* Go scheduler runs it and that Latest, Analyze and                   *)
(* SaveInsightsSnapshot return, as they do at the latest when the      *)
(* AnalyzeTimeout of recompute's context runs out.  The refresh ticker *)
(* stops with the clock at LongRun, after which no request arrives.    *)
(* ------------------------------------------------------------------ *)
SpecInsightsFair ==
    /\ SpecInsights
    /\ WF_vars(\E g \in Loops : LoopLoad(g))
    /\ WF_vars(\E g \in Loops : LoopAnalyze(g, InsightAlerts))
    /\ WF_vars(\E g \in Loops : LoopSave(g))
    /\ WF_vars(\E g \in Loops : LoopCheck(g))

\* C30: from some time on the scheduler is idle for good: running and
\* pending are clear and no recomputeLoop goroutine exists.
C30_EventuallyIdle ==
    <>[](~sched.running /\ ~sched.pending /\ ActiveLoops = {})

\* the clock has reached the end of the run, the last recompute was one for
\* a pending request, and the scheduler is idle
C30_Witness ==
    /\ now = LongRun /\ ticker > LongRun
    /\ sched.snapshot.trigger = "pending"
    /\ ~sched.running /\ ~sched.pending /\ ActiveLoops = {}

(* ------------------------------------------------------------------ *)
(* Requests for a recompute from the ticker and from ingest handlers,  *)
(* under fair scheduling of the recomputeLoop goroutine.               *)
(* ------------------------------------------------------------------ *)
SpecSchedFair ==
    /\ SpecSched
    /\ WF_vars(\E g \in Loops : LoopLoad(g))
    /\ WF_vars(\E g \in Loops : LoopAnalyze(g, SchedAlerts))
    /\ WF_vars(\E g \in Loops : LoopSave(g))
    /\ WF_vars(\E g \in Loops : LoopCheck(g))

\* a request has been made for which no recompute has yet called Latest: a
\* recompute is about to, or one is under way and pending is set
Owed ==
    \/ \E g \in Loops : loops[g].pc = "load"
    \/ sched.pending /\ \E g \in Loops : loops[g].pc \in {"analyze", "save", "check"}

\* C28: Start's call of requestRecompute and every later call, by the ticker
\* or by an ingest handler, leaves a recompute owed; what is owed stays owed through every step but
\* a recompute's call of Latest, also through the end of the recompute under
\* way; a recompute that is about to call Latest does call it, and when
\* pending is set the loop comes to clear it and to start a recompute.
C28_NoRequestLost ==
    /\ Owed
    /\ [][(\/ ticker' # ticker
           \/ \E h \in SchedHandlers : hs[h].pc = "request" /\ hs'[h] # hs[h])
          => Owed']_vars
    /\ [][(Owed /\ ~\E g \in Loops : loops[g].pc = "load" /\ loops'[g].pc # "load")
          => Owed']_vars
    /\ \A g \in Loops : loops[g].pc = "load" ~> loops[g].pc \in {"analyze", "check"}
    /\ sched.pending ~> (~sched.pending /\ \E g \in Loops : loops[g].pc = "load")

\* an event trigger has been accepted; a recompute has ended with pending
\* set, and the one that followed it for the pending requests has called
\* Latest and is waiting for the analyzer
C28_Witness ==
    /\ sched.lastEventTrigger # 0
    /\ \E h \in SchedHandlers : hs[h].pc = "done" /\ hs[h].resp = 202
    /\ stats.coalesced >= 1
    /\ \E g \in Loops : loops[g].pc = "analyze" /\ loops[g].trigger = "pending"
    /\ ~sched.pending

(* ------------------------------------------------------------------ *)
(* The scheduler's flags as a machine of three states, under           *)
(* SpecSched.                                                          *)
(* ------------------------------------------------------------------ *)
\* C29: pending is never set without running, and running is set exactly
\* while a recomputeLoop exists.  Start's request, made in idle, has started
\* one recompute with trigger "startup".  A request made in idle sets running, leaves
\* pending clear and starts one recompute with the request's trigger; a
\* request made while running sets pending and nothing else.  The end of a
\* recompute clears pending and starts a recompute with trigger "pending" if
\* pending is set, and clears running and ends the loop if not.  No other
\* step changes either flag.
C29_ThreeStates ==
    /\ sched.running /\ ~sched.pending
    /\ \E g \in Loops :
          loops = [o \in Loops |-> IF o = g
                                   THEN [IdleLoop EXCEPT !.pc = "load", !.trigger = "startup"]
                                   ELSE IdleLoop]
    /\ [](~(sched.pending /\ ~sched.running))
    /\ [](sched.running <=> ActiveLoops # {})
    /\ [][LET byTicker == ticker' # ticker
              byHandler == \E h \in SchedHandlers : hs[h].pc = "request" /\ hs'[h] # hs[h]
              ended == \E g \in Loops : loops[g].pc = "check" /\ loops'[g] # loops[g]
              trigger == IF byTicker THEN "interval" ELSE "event"
          IN /\ (byTicker \/ byHandler) =>
                   IF ~sched.running
                   THEN /\ sched'.running /\ ~sched'.pending
                        /\ \E g \in Loops :
                              /\ loops[g].pc = "none"
                              /\ loops' = [loops EXCEPT ![g] = [IdleLoop EXCEPT
                                                                  !.pc = "load",
                                                                  !.trigger = trigger]]
                   ELSE /\ sched'.running /\ sched'.pending
                        /\ loops' = loops
             /\ ended =>
                   IF sched.pending
                   THEN /\ sched'.running /\ ~sched'.pending
                        /\ \E g \in Loops :
                              /\ loops[g].pc = "check"
                              /\ loops' = [loops EXCEPT ![g] = [IdleLoop EXCEPT
                                                                  !.pc = "load",
                                                                  !.trigger = "pending"]]
                   ELSE /\ ~sched'.running /\ ~sched'.pending
                        /\ loops' = [g \in Loops |-> IdleLoop]
             /\ (sched'.running # sched.running \/ sched'.pending # sched.pending)
                   => (byTicker \/ byHandler \/ ended)]_vars

\* a request made in idle by an ingest handler started a recompute that
\* carries the trigger "event"; while it waits for the analyzer another
\* request has set pending
C29_Witness ==
    /\ sched.running /\ sched.pending
    /\ \E g \in Loops : loops[g].pc = "analyze" /\ loops[g].trigger = "event"

(* ------------------------------------------------------------------ *)
(* The order of the connectivity events in ops_events, under           *)
(* SpecMonitor.                                                        *)
(* ------------------------------------------------------------------ *)
\* C31: a device_connected or device_disconnected event is inserted into
\* ops_events only when no connectivity event handed to persistOpsEvent
\* before it is still waiting to be inserted, so that the events stand in
\* the table in the order of the transitions behind them.
C31_PersistedInOrder ==
    [][LET Connectivity == {"device_connected", "device_disconnected"}
       IN \A i \in opsPending :
             (i \notin opsPending' /\ opsEvents' # opsEvents
              /\ opsEmitted[i].kind \in Connectivity)
             => \A j \in opsPending : j < i => opsEmitted[j].kind \notin Connectivity]_vars

(* ------------------------------------------------------------------ *)
(* The monitor against concurrent ingest handlers, under SpecDevice.   *)
(* ------------------------------------------------------------------ *)
\* C32: when the monitor's evaluation of a tick hands a device_disconnected
\* event to persistOpsEvent, the tick's time is at least DeviceOfflineTimeout
\* after the latest arrival time that any onTelemetryReceived has recorded.
C32_DisconnectOnlyAfterSilence ==
    [][(/\ mon.pc = "eval" /\ mon'.pc = "wait"
        /\ opsEmitted' # opsEmitted
        /\ seenLatest # 0)
       => mon.at - seenLatest >= DeviceOfflineTimeout]_vars

\* C33: of the events handed to persistOpsEvent, in the order of the
\* critical sections that decided them, any two connectivity events with no
\* connectivity event between them are one device_connected and one
\* device_disconnected.
C33_EventsAlternate ==
    LET Conn == EmittedOf("device_connected") \cup EmittedOf("device_disconnected")
    IN \A i, j \in Conn :
          (i < j /\ ~\E k \in Conn : i < k /\ k < j)
             => opsEmitted[i].kind # opsEmitted[j].kind

\* a connection, a disconnection and a connection again have been decided,
\* in this order, with two ingest handlers and the monitor at work
C33_Witness ==
    \E i, j, k \in DOMAIN opsEmitted :
       /\ i < j /\ j < k
       /\ opsEmitted[i].kind = "device_connected"
       /\ opsEmitted[j].kind = "device_disconnected"
       /\ opsEmitted[k].kind = "device_connected"
       /\ \A h \in Handlers : hs[h].notified

(* ------------------------------------------------------------------ *)
(* Start of the scheduler, under SpecInsights.                         *)
(* ------------------------------------------------------------------ *)
\* C34: when Start has returned, the snapshot in memory, if there is one, is
\* the stored one, and the one recompute with trigger "startup" has been
\* requested and has not yet called Latest; no other recompute ever carries
\* that trigger; and the snapshot in memory, so what Snapshot returns, stays
\* as it is through every step but a recompute's successful Analyze.
C34_RestoredUntilSuccess ==
    /\ ~savedSnapshot.found => ~sched.hasSnapshot
    /\ sched.hasSnapshot => sched.snapshot = savedSnapshot.value
    /\ Cardinality({g \in Loops : loops[g].trigger = "startup"}) = 1
    /\ \A g \in Loops : loops[g].pc = IF loops[g].trigger = "startup" THEN "load" ELSE "none"
    /\ [][/\ \A g \in Loops :
                loops'[g].trigger = "startup" => loops[g].trigger = "startup"
          /\ (\A g \in Loops : ~(loops[g].pc = "analyze" /\ loops'[g].pc = "save"))
                => /\ sched'.snapshot = sched.snapshot
                   /\ sched'.hasSnapshot = sched.hasSnapshot
                   /\ Snapshot(sched, 0)' = Snapshot(sched, 0)]_vars

\* the startup recompute has failed and the stored snapshot of an earlier
\* run, made by an interval recompute, is still the one in memory
C34_Witness ==
    /\ \E g \in Loops : loops[g].pc = "check" /\ loops[g].trigger = "startup"
    /\ sched.hasSnapshot
    /\ sched.snapshot = savedSnapshot.value
    /\ sched.snapshot.trigger = "interval"
    /\ Snapshot(sched, 0).value = savedSnapshot.value

(* ------------------------------------------------------------------ *)
(* The device state at start: an ops store that holds the events of    *)
(* earlier runs, among them more than initializeDeviceState loads, one *)
(* ingest handler and the monitor.                                     *)
(* ------------------------------------------------------------------ *)
\* ops_events as earlier runs left it: empty, restarts only, a connection
\* under later restarts, a disconnection after a connection, and a connection
\* with InitOpsLimit restarts after it
StartHistories ==
    LET Event(kind, ts) == [kind |-> kind, ts |-> ts]
    IN {<<>>,
        <<Event("backend_restarted", 1)>>,
        <<Event("device_disconnected", 1), Event("device_connected", 1),
          Event("backend_restarted", 1)>>,
        <<Event("device_connected", 1), Event("device_disconnected", 1),
          Event("backend_restarted", 1), Event("backend_restarted", 1)>>,
        <<Event("device_connected", 1)>>
           \o [i \in 1..InitOpsLimit |-> Event("backend_restarted", 1)]}

InitStart ==
    /\ config = [engine |-> FALSE, ops |-> TRUE, trace |-> FALSE]
    /\ InitHub
    /\ InitOpsOver(StartHistories)
    /\ InitNoEngine

SpecStart == InitStart /\ [][NextMonitor]_vars

\* C35: after NewAPI the device state is unknown or is that of the latest
\* device_connected or device_disconnected event among the last InitOpsLimit
\* events of ops_events, connected or not by its kind and last seen at its
\* time; it is unknown when there is no such event.  While the state is
\* unknown no device_disconnected event has been emitted, and only an
\* ingest's onTelemetryReceived makes it known.
C35_StateAtStart ==
    /\ LET n == Len(opsEvents)
           Loaded == {i \in 1..n : i > n - InitOpsLimit
                                   /\ opsEvents[i].kind \in {"device_connected",
                                                             "device_disconnected"}}
           latest == CHOOSE i \in Loaded : \A j \in Loaded : j <= i
       IN \/ dev = ZeroDevice
          \/ /\ Loaded # {}
             /\ dev = [known |-> TRUE,
                       connected |-> opsEvents[latest].kind = "device_connected",
                       seenAt |-> opsEvents[latest].ts]
    /\ [](~dev.known => EmittedOf("device_disconnected") = {})
    /\ [][(~dev.known /\ dev'.known)
          => \E h \in MainHandlers : hs[h].pc = "notify" /\ hs'[h].pc # "notify"]_vars

\* the connection of an earlier run lies under InitOpsLimit restarts: the
\* state is unknown at start, the monitor has evaluated its ticks to the end
\* of the run and no disconnection has been emitted
C35_Witness ==
    /\ Len(opsEvents) >= InitOpsLimit + 1
    /\ opsEvents[1].kind = "device_connected"
    /\ ~dev.known
    /\ now = LongRun /\ mon.pc = "wait" /\ mon.at = LongRun
    /\ EmittedOf("device_disconnected") = {}

(* ------------------------------------------------------------------ *)
(* Batches at the event trigger: an analyzer, no ops store, no stream  *)
(* connections, one ingest handler, and batches whose readings differ  *)
(* in PM2 and PM10, so that a reading in the middle of a batch can     *)
(* meet a trigger condition.  The startup recompute stays in flight.   *)
(* ------------------------------------------------------------------ *)
\* POST /api/ingest/batch with one reading for every element of pms
BatchOfPMs(seq, pms) ==
    Request("batch", "POST", <<"k">>,
            [kind |-> "json", n |-> Len(pms),
             items |-> [i \in 1..Len(pms) |-> Item("ok", seq + i - 1, pms[i])]])

NextBatch ==
    \/ \E h \in MainHandlers :
          \E req \in FitsIn(SingleRequests(nextSeq, TriggerPMs)
                            \cup UNION {{BatchOfPMs(nextSeq, pms) :
                                            pms \in SeqsOf(TriggerPMs, n)} :
                                        n \in 1..MaxBatchLen},
                            nextSeq, TriggerReadings) :
             BeginWithin(h, req, TriggerReadings)
    \/ \E h \in MainHandlers : StoreStep(h)
    \/ \E h \in MainHandlers : Publish(h)
    \/ \E h \in MainHandlers : Clock(h)
    \/ \E h \in MainHandlers : Should(h)
    \/ \E h \in MainHandlers : RequestEvent(h)
    \/ Tick

SpecBatch == InitTrigger /\ [][NextBatch]_vars

\* C36: every reading delivered through OnReading or OnBatch is compared with
\* the reading delivered immediately before it: when OnBatch returns, the
\* scheduler's last-seen reading is the last reading of the batch
C36_LastSeenIsLastOfBatch ==
    [][\A h \in MainHandlers :
          (/\ hs[h].pc \in {"should", "request"}
           /\ hs[h].route = "batch"
           /\ hs'[h].pc = "done")
          => sched'.lastReading = <<hs[h].readings[Len(hs[h].readings)]>>]_vars

\* C37: every exit path of the stream handler, the client's disconnect or a
\* failed write, unsubscribes the handler's channel: the hub's subscriber set
\* is at all times the set of stream handlers that have subscribed and have
\* not yet returned, and the channel of a handler that has returned is closed
C37_SubscribersAreRunningStreams ==
    /\ subscribers = {s \in Streams : spc[s] \in {"open", "exiting"}}
    /\ \A s \in Streams : spc[s] = "closed" <=> chanClosed[s]

\* one handler has returned and its closure has closed its channel, while the
\* other, still subscribed, has a failed write behind it and is returning
C37_Witness ==
    /\ spc[1] = "closed" /\ 1 \notin subscribers /\ unsub[1].closes = 1
    /\ spc[2] = "exiting" /\ 2 \in subscribers

\* C38: within one counting window of a key exactly the first limit calls of
\* Allow are answered true and the others false (the window's count is the
\* number of calls answered true); a call answered false leaves the window's
\* start and count as they were, and a call leaves the windows of the other
\* keys as they were
C38_FirstLimitPerWindow ==
    /\ [](\A k \in DOMAIN limiter.entries :
            LET InWindow == {i \in DOMAIN limiter.calls :
                                /\ (IF limiter.calls[i].key = "" THEN "unknown"
                                    ELSE limiter.calls[i].key) = k
                                /\ limiter.calls[i].at >= limiter.entries[k].start}
                Rank(i) == Cardinality({j \in InWindow : j <= i})
            IN /\ \A i \in InWindow : limiter.calls[i].ok <=> Rank(i) <= limiter.limit
               /\ limiter.entries[k].count
                     = Cardinality({i \in InWindow : limiter.calls[i].ok}))
    /\ [][limiter'.calls # limiter.calls =>
            LET call == limiter'.calls[Len(limiter'.calls)]
                key == IF call.key = "" THEN "unknown" ELSE call.key
            IN /\ ~call.ok => limiter'.entries = limiter.entries
               /\ \A k \in DOMAIN limiter.entries :
                     k # key => /\ k \in DOMAIN limiter'.entries
                                /\ limiter'.entries[k] = limiter.entries[k]]_vars

\* a window of key "a" with two calls answered true and then, a tick later,
\* one answered false, and a call for the empty key in between
C38_Witness ==
    /\ Len(limiter.calls) = 4
    /\ limiter.calls[1] = [key |-> "a", at |-> 1, ok |-> TRUE]
    /\ limiter.calls[2] = [key |-> "", at |-> 1, ok |-> TRUE]
    /\ limiter.calls[3] = [key |-> "a", at |-> 1, ok |-> TRUE]
    /\ limiter.calls[4] = [key |-> "a", at |-> 2, ok |-> FALSE]
    /\ limiter.entries["a"] = [start |-> 1, count |-> 2]

\* C39: a reading that shouldTriggerFromReading does not accept, because it
\* meets no trigger condition or because the throttle rejects it, becomes the
\* last-seen reading all the same, and the time of the last accepted event
\* trigger stays as it was, so that a rejected reading does not extend the
\* throttle window
C39_RejectedStillSeen ==
    [][\A h \in SchedHandlers :
          (Decides(h) /\ hs'[h].pc # "request")
             => /\ \/ ~MeetsCondition(h)
                   \/ /\ sched.lastEventTrigger # 0
                      /\ hs[h].now - sched.lastEventTrigger < EventMinInterval
                /\ sched'.lastReading = <<hs[h].readings[hs[h].idx]>>
                /\ sched'.lastEventTrigger = sched.lastEventTrigger]_vars

\* PM2 went 1, 5, 1 and the clock has moved on to 2: the reading decided last
\* is the third, and it was not accepted (after the second it is throttled at
\* time 1; after the first it meets no condition); it is the last-seen
\* reading, and the last accepted trigger is still the one of time 1
C39_Witness ==
    /\ nextSeq = TriggerReadings + 1 /\ Len(rows) = 3
    /\ \A h \in SchedHandlers : hs[h].pc = "done" /\ hs[h].resp = 202
    /\ <<rows[1].pm2, rows[1].pm10>> = <<1, 1>>
    /\ <<rows[2].pm2, rows[2].pm10>> = <<5, 1>>
    /\ <<rows[3].pm2, rows[3].pm10>> = <<1, 1>>
    /\ sched.lastReading = <<rows[3]>>
    /\ sched.lastEventTrigger = 1 /\ stats.arrived = 1
    /\ now = 2

(* ------------------------------------------------------------------ *)
(* The request limiter with a full map: OtherClients clients have each *)
(* called Allow once at time 1, so that the next key brings the map to *)
(* CleanupThreshold entries and cleanup looks for old windows.         *)
(* ------------------------------------------------------------------ *)
\* one client fewer than the map needs for cleanup to look at it
OtherClients == CleanupThreshold - 1

\* the run ends when a window of time 1 is older than three window lengths
CleanupRun == 3 * RateWindow + 2

\* the keys Allow is called with: a client and the empty key
CleanupKeys == {"a", ""}

\* a new limiter after n clients, named by their numbers, have each called
\* Allow once at the time at: every key is new, so Allow gives it a window
\* that begins at that time and counts one request; with n below
\* CleanupThreshold, cleanup returns at its test of the map's size
AfterClients(lim, n, at) ==
    LET windows == [k \in {ToString(i) : i \in 1..n} |-> [start |-> at, count |-> 1]]
    IN [lim EXCEPT !.entries = windows, !.plain = windows]

InitCleanup ==
    /\ config = [engine |-> FALSE, ops |-> FALSE, trace |-> FALSE]
    /\ InitIngestWith(<<>>, AfterClients(newRequestLimiter(RateLimit, RateWindow),
                                         OtherClients, 1))
    /\ ret = RetentionOff
    /\ InitNoOps
    /\ InitNoEngine

NextCleanup ==
    \/ \E key \in CleanupKeys : LimiterAllow(key)
    \/ TickUntil(CleanupRun)

SpecCleanup == InitCleanup /\ [][NextCleanup]_vars

\* C40: cleanup removes only windows that have expired, that is, windows in
\* which the next call for their key would start a new window anyway; so
\* every call of Allow is answered as it would be if cleanup had never run
C40_CleanupChangesNoAnswer ==
    [][limiter'.calls # limiter.calls =>
          LET call == limiter'.calls[Len(limiter'.calls)]
          IN /\ \A k \in DOMAIN limiter.entries \ DOMAIN limiter'.entries :
                   call.at - limiter.entries[k].start >= limiter.window
             /\ call.ok = AllowKeepingAll([limiter EXCEPT !.entries = limiter.plain],
                                          call.key, call.at).ok
             /\ \A k \in DOMAIN limiter'.entries :
                   limiter'.entries[k] = limiter'.plain[k]]_vars

\* key "a" was allowed at time 1; at time 8 a call for the empty key made
\* cleanup delete the window of "a" and those of the other clients, and the
\* next call for "a" has been answered from a map that holds two keys
C40_Witness ==
    /\ Len(limiter.calls) = 3
    /\ limiter.calls[1] = [key |-> "a", at |-> 1, ok |-> TRUE]
    /\ limiter.calls[2] = [key |-> "", at |-> CleanupRun, ok |-> TRUE]
    /\ limiter.calls[3] = [key |-> "a", at |-> CleanupRun, ok |-> TRUE]
    /\ DOMAIN limiter.entries = {"a", "unknown"}
    /\ Cardinality(DOMAIN limiter.plain) = OtherClients + 2

====
